---------------------------- MODULE Spec2Model ----------------------------
(***************************************************************************)
(* A model of the gorq query plan engine (package plans): the plan state   *)
(* built by the fluent calls, the statement compiler, the finalizing       *)
(* actions with their execution transport, and the result cache with its   *)
(* background goroutines.                                                  *)
(*                                                                         *)
(* SQL text is a sequence of tokens <<text, for>>.  A bind placeholder is  *)
(* the token <<"%s", v>>: its text is BindVarPlaceholder and `for' records *)
(* the literal the code emitted it for, so that the position of every      *)
(* placeholder can be compared with the position of its argument.          *)
(* A value is an operand <<"lit", v>> (anything whose reflect kind is not  *)
(* Ptr) or <<"ptr", f>> (the address of field f).                          *)
(***************************************************************************)
EXTENDS Integers, Sequences, FiniteSets, TLC

VARIABLES
    plan,       \* the QueryPlan under construction (one logical caller)
    calls,      \* number of fluent calls made on the plan so far
    last,       \* outcome of the most recent call that returned to the caller
    db,         \* the table behind the transport: number of committed mutations
    store,      \* cache backend: key -> payload
    registry,   \* cache backend: table -> set of registered keys
    pending,    \* background goroutines started and not yet finished
    dropped,    \* highest db version whose invalidation has completed
    probe,      \* inputs and outputs of the cache key function
    dbMap,      \* the DbMap the callers share
    sync        \* the registry's reader/writer lock and its callers' positions

vars == <<plan, calls, last, db, store, registry, pending, dropped, probe, dbMap, sync>>

---------------------------------------------------------------------------
(* Bounds *)

MaxCalls == 3
MaxMutations == 1

---------------------------------------------------------------------------
(* Errors *)

NoErr == ""
ErrPtrStruct  == "A query target must be a pointer to struct"
ErrPtrTypes   == "All query targets must be pointer types"
ErrNoStruct   == "gorp: Cannot create query plan - no struct found to map to"
ErrNoFields   == "No fields in the target struct are mappable."
ErrNotFound   == "gorp: Cannot find a field matching the passed in pointer"
ErrNoRefs     == "No references found to join with"
ErrDirection  == "gorp: Order by direction must be empty string, \"asc\", or \"desc\""
ErrTransient  == "gorp: Cannot run queries against transient columns"
ErrSliceTarget == "SelectToTarget must be run with a pointer to a slice as its target"
ErrTransport  == "transport: statement failed"
ErrRowsAffected == "transport: RowsAffected failed"

---------------------------------------------------------------------------
(* Tokens and statements *)

BindVarPlaceholder == "%s"

T(s) == <<s, "">>
PH(v) == <<BindVarPlaceholder, v>>
IsPH(tok) == tok[1] = BindVarPlaceholder

Lit(v) == <<"lit", v>>
Ptr(f) == <<"ptr", f>>

RECURSIVE Flatten(_)
Flatten(ss) == IF ss = <<>> THEN <<>> ELSE Head(ss) \o Flatten(Tail(ss))

RECURSIVE SelectToks(_)
SelectToks(q) ==
    IF q = <<>> THEN <<>>
    ELSE IF IsPH(Head(q)) THEN <<Head(q)>> \o SelectToks(Tail(q))
    ELSE SelectToks(Tail(q))

\* The literals the placeholders of q were emitted for, left to right.
Holes(q) == LET phs == SelectToks(q) IN [i \in 1..Len(phs) |-> phs[i][2]]

\* The bind variables of a bound query (tokens that stand for a literal), and
\* the literals they stand for, left to right.
RECURSIVE BoundToks(_)
BoundToks(q) ==
    IF q = <<>> THEN <<>>
    ELSE IF Head(q)[2] # "" THEN <<Head(q)>> \o BoundToks(Tail(q))
    ELSE BoundToks(Tail(q))
BoundFor(q) == LET b == BoundToks(q) IN [i \in 1..Len(b) |-> b[i][2]]
BoundText(q) == LET b == BoundToks(q) IN [i \in 1..Len(b) |-> b[i][1]]

NewStatement == [query |-> <<>>, args |-> <<>>]

\* strings.Replace(query, BindVarPlaceholder, v, 1)
RECURSIVE ReplaceFirst(_, _)
ReplaceFirst(q, v) ==
    IF q = <<>> THEN <<>>
    ELSE IF IsPH(Head(q)) THEN <<(<<v, Head(q)[2]>>)>> \o Tail(q)
    ELSE <<Head(q)>> \o ReplaceFirst(Tail(q), v)

RECURSIVE ReplaceAll(_, _)
ReplaceAll(q, bvs) ==
    IF bvs = <<>> THEN q ELSE ReplaceAll(ReplaceFirst(q, Head(bvs)), Tail(bvs))

\* Statement.Query(bindVars...)
StatementQuery(s, bvs) == ReplaceAll(s.query, bvs)

---------------------------------------------------------------------------
(* Dialects (external): quoting, bind variables, limit style *)

Dialects == {"postgres", "mysql"}

QuoteField(f) == "\"" \o f \o "\""
QuotedTableForQuery(schema, table) ==
    IF schema = "" THEN QuoteField(table)
    ELSE schema \o "." \o QuoteField(table)

\* Dialect.BindVar(i), i counted from 0
BindVar(dialect, i) == IF dialect = "postgres" THEN "$" \o ToString(i + 1) ELSE "?"

\* dbMap.Dialect.(interfaces.NonstandardLimiter)
Nonstandard(dialect) == dialect # "postgres"
LimiterLimit(bind) == <<T("LIMIT"), bind>>

---------------------------------------------------------------------------
(* Table/column metadata provider (external): the registered structs *)

\* reflect kind of what a target points to; "" when the target is no pointer
TargetElemKind(target) ==
    CASE target = "model" -> "struct"
      [] target = "other" -> "struct"
      [] target = "ghost" -> "struct"
      [] target = "sub" -> "struct"
      [] target = "esub" -> "struct"
      [] target = "parent" -> "struct"
      [] target = "child" -> "ptr"
      [] target = "ptrint" -> "int"
      [] OTHER -> ""

\* targetVal.Interface(): the address a target holds.  The address of the
\* parent struct's field Child is the one target that is also a mapped field.
TargetAddr(target) == IF target = "child" THEN "Child" ELSE "&" \o target

\* dbMap.TableFor(type)
TableFor(target) ==
    CASE target = "model" -> "t1"
      [] target = "other" -> "t2"
      [] target = "parent" -> "t4"
      [] OTHER -> "t3"

\* column.TargetTable(), column.JoinAlias(), column.JoinPrefix() and
\* column.ReferencedBy(): the parent's column child_id is a foreign key to the
\* second struct's oid
TargetTable(columnName) == IF columnName = "child_id" THEN "t2" ELSE ""
JoinAlias(columnName) == IF columnName = "child_id" THEN "child" ELSE ""
JoinPrefix(columnName) == IF columnName = "child_id" THEN "child_" ELSE ""
ReferencedBy(columnName) == IF columnName = "oid" THEN {"child_id"} ELSE {}

\* strings.TrimSuffix(prefix, "_") on the prefixes the provider hands out
TrimSuffix(prefix) == IF prefix = "child_" THEN "child" ELSE prefix

\* table.Columns, in declaration order; field is the address of the struct
\* field and FieldIndex its position in the struct
TableColumns(table) ==
    CASE table = "t1" ->
           << [ColumnName |-> "id", field |-> "ID", Transient |-> FALSE, FieldIndex |-> 1],
              [ColumnName |-> "name", field |-> "Name", Transient |-> FALSE, FieldIndex |-> 2],
              [ColumnName |-> "tmp", field |-> "Tmp", Transient |-> TRUE, FieldIndex |-> 3] >>
      [] table = "t2" ->
           << [ColumnName |-> "oid", field |-> "OID", Transient |-> FALSE, FieldIndex |-> 1] >>
      [] table = "t4" ->
           << [ColumnName |-> "pid", field |-> "PID", Transient |-> FALSE, FieldIndex |-> 1],
              [ColumnName |-> "child_id", field |-> "Child", Transient |-> FALSE,
               FieldIndex |-> 2] >>
      [] OTHER ->
           << [ColumnName |-> "g", field |-> "G", Transient |-> TRUE, FieldIndex |-> 1] >>

---------------------------------------------------------------------------
(* Field identity resolver *)

RECURSIVE IndexOfField(_, _, _)
IndexOfField(colMap, fieldPtr, i) ==
    IF i > Len(colMap) THEN 0
    ELSE IF colMap[i].field = fieldPtr THEN i
    ELSE IndexOfField(colMap, fieldPtr, i + 1)

\* structColumnMap.joinMapForPointer: the first entry whose address is fieldPtr
joinMapForPointer(colMap, fieldPtr) ==
    LET found(i) ==
          IF i = 0 THEN [idx |-> 0, err |-> ErrNotFound] ELSE [idx |-> i, err |-> NoErr]
    IN found(IndexOfField(colMap, fieldPtr, 1))

\* A field reference that is a pointer; "value" stands for a value passed
\* where the address of a field was meant (ref.Name for &ref.Name)
IsPointer(fieldPtr) == fieldPtr # "value"

\* The miss path of joinMapForPointer formats its error from
\* reflect.ValueOf(fieldPtr).Pointer() and .Elem(), which panic when fieldPtr
\* is no pointer
joinMapForPointerPanics(colMap, fieldPtr) ==
    IndexOfField(colMap, fieldPtr, 1) = 0 /\ ~IsPointer(fieldPtr)

\* structColumnMap.fieldMapForPointer
fieldMapForPointer(colMap, fieldPtr) ==
    LET checked(m) ==
          IF m.err # NoErr THEN m
          ELSE IF colMap[m.idx].Transient THEN [idx |-> 0, err |-> ErrTransient]
          ELSE m
    IN checked(joinMapForPointer(colMap, fieldPtr))

\* structColumnMap.LocateColumn
LocateColumn(colMap, fieldPtr) ==
    LET located(m) ==
          IF m.err # NoErr THEN [col |-> "", err |-> m.err]
          ELSE [col |-> colMap[m.idx].quotedColumn, err |-> NoErr]
    IN located(fieldMapForPointer(colMap, fieldPtr))

\* structColumnMap.LocateTableAndColumn
LocateTableAndColumn(colMap, fieldPtr) ==
    LET located(m) ==
          IF m.err # NoErr THEN [col |-> "", err |-> m.err]
          ELSE [col |-> colMap[m.idx].quotedTable \o "." \o colMap[m.idx].quotedColumn,
                err |-> NoErr]
    IN located(fieldMapForPointer(colMap, fieldPtr))

---------------------------------------------------------------------------
(* Table/column mapper *)

NilFilter == [kind |-> "nil", Type |-> "", QuotedJoinTable |-> "", QuotedAlias |-> "",
              filters |-> <<>>]

\* &QueryPlan{dbMap: m, executor: exec, cache: cache, cachingDisabled: ...}
EmptyPlan(dialect, cache, cachingDisabled) ==
    [Errors |-> <<>>, table |-> "", quotedTable |-> "", target |-> "",
     dialect |-> dialect, colMap |-> <<>>, joins |-> <<>>, lastRefs |-> <<>>,
     assignCols |-> <<>>, assignBindVars |-> <<>>, assignArgs |-> <<>>,
     filters |-> NilFilter, orderBy |-> <<>>, groupBy |-> <<>>,
     limit |-> 0, offset |-> 0, cache |-> cache,
     cachingDisabled |-> cachingDisabled, tables |-> <<>>]

\* The fieldColumnMap literal of mapColumns' loop
fieldColumnMap(col, fieldRef, prefix, quotedTableName, shouldSelect) ==
    [field |-> fieldRef, selectTarget |-> Ptr(fieldRef),
     column |-> col.ColumnName, Transient |-> col.Transient,
     FieldIndex |-> col.FieldIndex,
     alias |-> prefix \o (IF JoinAlias(col.ColumnName) # "" THEN JoinAlias(col.ColumnName)
                          ELSE col.ColumnName),
     prefix |-> prefix \o JoinPrefix(col.ColumnName),
     quotedTable |-> quotedTableName, quotedColumn |-> QuoteField(col.ColumnName),
     doSelect |-> shouldSelect]

\* field.Addr().Interface() in mapColumns: the address of col's field in the
\* mapped value.  parent is the address of the foreign-key field the value
\* was reached through ("" for a struct of its own); there, a column that the
\* foreign key references has the address of the foreign-key field itself.
FieldRef(parent, col) ==
    IF parent = "" THEN col.field
    ELSE IF ReferencedBy(col.ColumnName) # {} THEN parent
    ELSE parent \o "." \o col.field

\* reference(leftTable, leftCol, rightTable, rightCol)
reference(leftTable, leftCol, rightTable, rightCol) ==
    [op |-> "reference",
     clause |-> leftTable \o "." \o leftCol \o " = " \o rightTable \o "." \o rightCol]

\* The loop of mapColumns over table.Columns
RECURSIVE mapColumnsLoop(_, _, _, _, _, _)
mapColumnsLoop(p, cols, index, parent, prefix, quotedTableName) ==
    LET appended(col, fieldRef, quotedCol, referenced, m) ==
          mapColumnsLoop(
            [p EXCEPT
               !.lastRefs = IF referenced /\ m.err = NoErr
                            THEN Append(@, reference(p.colMap[m.idx].quotedTable,
                                                     p.colMap[m.idx].quotedColumn,
                                                     quotedTableName, quotedCol))
                            ELSE @,
               !.colMap = Append(@, fieldColumnMap(col, fieldRef, prefix, quotedTableName,
                                    /\ ~col.Transient /\ prefix # "-"
                                    /\ ~(referenced /\ m.err = NoErr)))],
            cols, index + 1, parent, prefix, quotedTableName)
    IN IF index > Len(cols) THEN p
       ELSE appended(cols[index], FieldRef(parent, cols[index]),
                     QuoteField(cols[index].ColumnName),
                     /\ prefix # "-" /\ prefix # ""
                     /\ ReferencedBy(cols[index].ColumnName) # {},
                     fieldMapForPointer(p.colMap, FieldRef(parent, cols[index])))

\* Mutant of mapColumns: a struct with no queryable column is accepted
mapColumnsAcceptingNone(p, table, parent, prefix) ==
    [plan |-> mapColumnsLoop(p, TableColumns(table), 1, parent, prefix,
                 IF prefix = "" \/ prefix = "-" THEN QuotedTableForQuery("", table)
                 ELSE QuoteField(TrimSuffix(prefix))),
     err |-> NoErr]

\* QueryPlan.mapColumns: appends one entry per column, fails when none is queryable
mapColumns(p, table, parent, prefix) ==
    [plan |-> mapColumnsLoop(p, TableColumns(table), 1, parent, prefix,
                 IF prefix = "" \/ prefix = "-" THEN QuotedTableForQuery("", table)
                 ELSE QuoteField(TrimSuffix(prefix))),
     err |-> IF \A i \in 1..Len(TableColumns(table)) : TableColumns(table)[i].Transient
             THEN ErrNoFields ELSE NoErr]

RECURSIVE Query(_, _, _, _)

\* targetVal.Interface().(subQuery): the target is itself a query plan; the
\* model's such targets are a plan over the second registered struct ("sub")
\* and the same plan after a builder call on it recorded an unresolved-field
\* error ("esub")
IsSubQuery(target) == target \in {"sub", "esub"}
SubQueryTarget(target, dialect) ==
    IF target = "esub"
    THEN [Query(dialect, "other", FALSE, FALSE) EXCEPT !.Errors = <<ErrNotFound>>]
    ELSE Query(dialect, "other", FALSE, FALSE)

\* subQuery.selectQuery(): the compiled SELECT of the inner plan, as text
selectQuery(q) ==
    IF Len(q.Errors) > 0 THEN [query |-> "", err |-> q.Errors[1]]
    ELSE [query |-> "select from " \o q.quotedTable, err |-> NoErr]

\* QueryPlan.mapSubQuery: the inner plan's errors and column map are imported,
\* the columns re-qualified with the alias; plan.tables is left as it is
mapSubQuery(p, q) ==
    LET compiled(s, alias) ==
          [plan |-> [p EXCEPT
                       !.Errors = @ \o q.Errors
                                    \o (IF s.err # NoErr THEN <<s.err>> ELSE <<>>),
                       !.colMap = @ \o [i \in 1..Len(q.colMap) |->
                                          [q.colMap[i] EXCEPT !.quotedTable = alias]]],
           table |-> q.table, alias |-> alias,
           from |-> "(" \o s.query \o ") as " \o alias, err |-> NoErr]
    IN compiled(selectQuery(q), q.quotedTable)

\* targetVal.Interface().(UnmappedSubQuery): a sub-query written by the user;
\* Target() is the struct it selects from and SelectQuery() gives its text and
\* the columns it selects.  The model's one such sub-query selects the
\* columns of the second registered struct.
IsUnmappedSubQuery(target) == target = "usub"
UnmappedTarget(target) == IF IsUnmappedSubQuery(target) THEN "other" ELSE target
SubQuerySelectQuery(table) ==
    [query |-> "(select * from " \o table \o ")",
     columns |-> [i \in 1..Len(TableColumns(table)) |-> TableColumns(table)[i].ColumnName]]

\* The loop of mapTable over plan.colMap for an UnmappedSubQuery: an entry
\* whose column name or join alias is among the sub-query's columns takes that
\* name as its alias, and the name is taken off the list
RECURSIVE aliasSubQueryColumns(_, _, _)
aliasSubQueryColumns(colMap, columns, index) ==
    LET matches(m) == {i \in 1..Len(columns) :
                          columns[i] \in {m.column, JoinAlias(m.column)}}
        first(s) == CHOOSE i \in s : \A j \in s : i <= j
        without(i) == SubSeq(columns, 1, i - 1) \o SubSeq(columns, i + 1, Len(columns))
    IN IF index > Len(colMap) THEN colMap
       ELSE IF matches(colMap[index]) = {}
       THEN aliasSubQueryColumns(colMap, columns, index + 1)
       ELSE aliasSubQueryColumns(
              [colMap EXCEPT ![index].alias = columns[first(matches(colMap[index]))]],
              without(first(matches(colMap[index]))), index + 1)

\* QueryPlan.mapTable
mapTable(p, target) ==
    IF target = "nonptr"
    THEN [plan |-> p, table |-> "", alias |-> "", from |-> "", err |-> ErrPtrTypes]
    ELSE IF IsSubQuery(target) THEN mapSubQuery(p, SubQueryTarget(target, p.dialect))
    ELSE
      LET mapped(alias, targetTable, r) ==
            IF r.err # NoErr
            THEN [plan |-> r.plan, table |-> "", alias |-> "", from |-> "", err |-> r.err]
            ELSE [plan |-> r.plan, table |-> targetTable, alias |-> alias, from |-> "",
                  err |-> NoErr]
          selected(p1, alias, targetTable) ==
            [plan |-> [p1 EXCEPT !.colMap = aliasSubQueryColumns(
                                     @, SubQuerySelectQuery(targetTable).columns, 1)],
             table |-> targetTable, alias |-> alias,
             from |-> SubQuerySelectQuery(targetTable).query, err |-> NoErr]
          columns(parent, prefix, alias, targetTable) ==
            IF IsUnmappedSubQuery(target)
            THEN selected([p EXCEPT !.tables = Append(@, targetTable), !.lastRefs = <<>>],
                          alias, targetTable)
            ELSE mapped(alias, targetTable,
                   mapColumns([p EXCEPT !.tables = Append(@, targetTable), !.lastRefs = <<>>],
                              targetTable, parent, prefix))
          \* parentMap, err := plan.colMap.joinMapForPointer(targetVal.Interface())
          joined(m) ==
            IF m.err = NoErr /\ TargetTable(p.colMap[m.idx].column) # ""
            THEN columns(p.colMap[m.idx].field, p.colMap[m.idx].prefix,
                         p.colMap[m.idx].alias, TargetTable(p.colMap[m.idx].column))
            ELSE IF TargetElemKind(UnmappedTarget(target)) # "struct"
            THEN [plan |-> p, table |-> "", alias |-> "", from |-> "", err |-> ErrNoStruct]
            ELSE columns("", IF p.table # "" THEN "-" ELSE "",
                         IF p.table # "" THEN "-" ELSE "", TableFor(UnmappedTarget(target)))
      IN joined(joinMapForPointer(p.colMap, TargetAddr(UnmappedTarget(target))))

\* tableAlias.tableForFromClause
tableForFromClause(t) ==
    IF t.from # "" THEN t.from ELSE QuotedTableForQuery("", t.table)

\* Query(m, exec, target, cache, cachingDisabled)
Query(dialect, target, cache, cachingDisabled) ==
    LET mapped(r) ==
          IF r.err # NoErr
          THEN [r.plan EXCEPT !.Errors = Append(@, r.err)]
          ELSE [r.plan EXCEPT !.target = target, !.table = r.table,
                              !.quotedTable = tableForFromClause(r)]
        checked(p0) ==
          IF TargetElemKind(target) # "struct"
          THEN [p0 EXCEPT !.Errors = Append(@, ErrPtrStruct)] ELSE p0
    IN mapped(mapTable(checked(EmptyPlan(dialect, cache, cachingDisabled)), target))

---------------------------------------------------------------------------
(* Filter/predicate model (package filters) *)

\* filters.Equal(fieldPtr, value) and the other comparisons
Comparison(op, fieldPtr, value) == [op |-> op, left |-> Ptr(fieldPtr), right |-> value]

\* ComparisonFilter.ActualValues; a referenceFilter has none
ActualValues(f) == IF f.op = "reference" THEN <<>> ELSE <<f.left, f.right>>

\* ComparisonFilter.Where(values...); a referenceFilter writes its clause
FilterWhere(f, vals) ==
    IF f.op = "reference" THEN <<T(f.clause)>> ELSE vals[1] \o <<T(f.op)>> \o vals[2]

\* CombinedFilter.ActualValues
MultiActualValues(m) == Flatten([i \in 1..Len(m.filters) |-> ActualValues(m.filters[i])])

\* AndFilter.Where(values...): each sub-filter renders its own share of the values
RECURSIVE MultiWhere(_, _)
MultiWhere(fs, vals) ==
    IF fs = <<>> THEN <<>>
    ELSE FilterWhere(Head(fs), SubSeq(vals, 1, Len(ActualValues(Head(fs)))))
         \o (IF Tail(fs) = <<>> THEN <<>> ELSE <<T("AND")>>)
         \o MultiWhere(Tail(fs), SubSeq(vals, Len(ActualValues(Head(fs))) + 1, Len(vals)))

\* new(filters.AndFilter)
AndFilter == [kind |-> "and", Type |-> "", QuotedJoinTable |-> "", QuotedAlias |-> "",
              filters |-> <<>>]

\* &filters.JoinFilter{Type: ..., QuotedJoinTable: ..., QuotedAlias: ...}
JoinFilter(joinType, quotedTable, quotedAlias) ==
    [kind |-> "join", Type |-> joinType, QuotedJoinTable |-> quotedTable,
     QuotedAlias |-> quotedAlias, filters |-> <<>>]

\* MultiFilter.Add(filters...)
FilterAdd(m, fs) == [m EXCEPT !.filters = @ \o fs]

\* JoinFilter.JoinClause(values...)
JoinClause(join, vals) ==
    <<T(join.Type), T("JOIN"), T(join.QuotedJoinTable)>>
    \o (IF join.QuotedAlias = "" THEN <<>> ELSE <<T("AS"), T(join.QuotedAlias)>>)
    \o (IF join.filters = <<>> THEN <<>> ELSE <<T("ON")>> \o MultiWhere(join.filters, vals))

\* order.ActualValue and order.OrderBy(value)
Order(fieldPtrOrWrapper, direction) == [value |-> fieldPtrOrWrapper, direction |-> direction]
OrderOrderBy(o, val) == val \o (IF o.direction = "" THEN <<>> ELSE <<T(o.direction)>>)

---------------------------------------------------------------------------
(* Statement compiler *)

\* Mutant of pendingError: the most recent error surfaces instead of the first
pendingErrorLatest(p) == IF Len(p.Errors) > 0 THEN p.Errors[Len(p.Errors)] ELSE NoErr

\* if len(plan.Errors) > 0 { return plan.Errors[0] }: the guard that opens
\* addSelectColumns, Insert, Update and Delete
pendingError(p) == IF Len(p.Errors) > 0 THEN p.Errors[1] ELSE NoErr

\* QueryPlan.argOrColumn for a value that is no SQL wrapper
argOrColumn(p, value) ==
    LET column(m) ==
          IF m.err # NoErr THEN [args |-> <<>>, sqlValue |-> <<>>, err |-> m.err]
          ELSE [args |-> <<>>,
                sqlValue |-> <<T(p.colMap[m.idx].quotedTable \o "." \o p.colMap[m.idx].quotedColumn)>>,
                err |-> NoErr]
    IN IF value[1] = "ptr"
       THEN column(fieldMapForPointer(p.colMap, value[2]))
       ELSE [args |-> <<value[2]>>, sqlValue |-> <<PH(value[2])>>, err |-> NoErr]

\* argOrColumn over a list of values: the arguments and SQL values in order,
\* and the first error
argsOrColumns(p, values) ==
    LET firstErr(rs, bad) ==
          IF bad = {} THEN NoErr ELSE rs[CHOOSE i \in bad : \A j \in bad : i <= j].err
        collected(rs) ==
          [args |-> Flatten([i \in 1..Len(values) |-> rs[i].args]),
           vals |-> [i \in 1..Len(values) |-> rs[i].sqlValue],
           err |-> firstErr(rs, {i \in 1..Len(values) : rs[i].err # NoErr})]
    IN collected([i \in 1..Len(values) |-> argOrColumn(p, values[i])])

\* Mutant of storeJoin: the join is put in front of the stored joins
storeJoinPrepending(p) ==
    IF p.filters.kind = "join"
    THEN [p EXCEPT !.joins = <<p.filters>> \o @, !.filters = NilFilter]
    ELSE p

\* QueryPlan.storeJoin
storeJoin(p) ==
    IF p.filters.kind = "join"
    THEN [p EXCEPT !.joins = Append(@, p.filters), !.filters = NilFilter]
    ELSE p

\* QueryPlan.QuotedTable; plan.table is nil when the mapping in Query failed,
\* and reading its names then panics
QuotedTable(p) ==
    IF p.quotedTable = "" THEN QuotedTableForQuery("", p.table) ELSE p.quotedTable
QuotedTablePanics(p) == p.quotedTable = "" /\ p.table = ""

\* One selected column of addSelectColumns' loop
selectClause(m, index) ==
    (IF index # 1 THEN <<T(",")>> ELSE <<>>)
    \o <<T(m.quotedTable \o "." \o m.quotedColumn)>>
    \o (IF m.alias # "" THEN <<T("AS"), T(m.alias)>> ELSE <<>>)

\* QueryPlan.addSelectColumns
addSelectColumns(p, st) ==
    IF Len(p.Errors) > 0 THEN [st |-> st, err |-> pendingError(p)]
    ELSE [st |-> [st EXCEPT !.query = @ \o Flatten(
                     [i \in 1..Len(p.colMap) |->
                        IF p.colMap[i].doSelect THEN selectClause(p.colMap[i], i)
                        ELSE <<>>])],
          err |-> NoErr]

\* Mutant of addWhereClause: the WHERE arguments go in front of the arguments
\* the statement already holds
addWhereClausePrepending(p, st) ==
    LET written(where) == IF where # <<>> THEN <<T("WHERE")>> \o where ELSE <<>>
        added(r) ==
          IF r.err # NoErr THEN [st |-> st, err |-> r.err]
          ELSE [st |-> [st EXCEPT !.args = r.args \o @,
                                  !.query = @ \o written(MultiWhere(p.filters.filters, r.vals))],
                err |-> NoErr]
    IN IF p.filters.kind = "nil" THEN [st |-> st, err |-> NoErr]
       ELSE added(argsOrColumns(p, MultiActualValues(p.filters)))

\* QueryPlan.addWhereClause
addWhereClause(p, st) ==
    LET written(where) == IF where # <<>> THEN <<T("WHERE")>> \o where ELSE <<>>
        added(r) ==
          IF r.err # NoErr THEN [st |-> st, err |-> r.err]
          ELSE [st |-> [st EXCEPT !.args = @ \o r.args,
                                  !.query = @ \o written(MultiWhere(p.filters.filters, r.vals))],
                err |-> NoErr]
    IN IF p.filters.kind = "nil" THEN [st |-> st, err |-> NoErr]
       ELSE added(argsOrColumns(p, MultiActualValues(p.filters)))

\* QueryPlan.addJoinClause
RECURSIVE addJoinClause(_, _, _)
addJoinClause(p, st, joins) ==
    LET added(r) ==
          IF r.err # NoErr THEN [st |-> st, err |-> r.err]
          ELSE addJoinClause(p,
                 [st EXCEPT !.args = @ \o r.args,
                            !.query = @ \o JoinClause(Head(joins), r.vals)],
                 Tail(joins))
    IN IF joins = <<>> THEN [st |-> st, err |-> NoErr]
       ELSE added(argsOrColumns(p, MultiActualValues(Head(joins))))

\* GROUP BY loop of addSelectSuffix
RECURSIVE groupByClause(_, _)
groupByClause(groupBy, index) ==
    IF index > Len(groupBy) THEN <<>>
    ELSE <<T(IF index = 1 THEN "GROUP BY" ELSE ","), T(groupBy[index])>>
         \o groupByClause(groupBy, index + 1)

\* ORDER BY loop of addSelectSuffix
RECURSIVE orderByClause(_, _, _)
orderByClause(p, st, index) ==
    LET added(st1, r) ==
          IF r.err # NoErr THEN [st |-> st1, err |-> r.err]
          ELSE orderByClause(p,
                 [st1 EXCEPT !.query = @ \o OrderOrderBy(p.orderBy[index], r.sqlValue),
                             !.args = @ \o r.args],
                 index + 1)
    IN IF index > Len(p.orderBy) THEN [st |-> st, err |-> NoErr]
       ELSE added([st EXCEPT !.query = @ \o <<T(IF index = 1 THEN "ORDER BY" ELSE ",")>>],
                  argOrColumn(p, p.orderBy[index].value))

\* Mutant of limitClause: FETCH NEXT is written before OFFSET
limitClauseFetchingFirst(p, st) ==
    LET nonstandard == Nonstandard(p.dialect)
        limited(s0) ==
          IF p.limit > 0 /\ nonstandard
          THEN [s0 EXCEPT !.query = @ \o LimiterLimit(PH(ToString(p.limit))),
                          !.args = Append(@, ToString(p.limit))]
          ELSE s0
        offset(s1) ==
          IF p.offset > 0
          THEN [s1 EXCEPT !.query = @ \o <<T("OFFSET"), PH(ToString(p.offset))>>,
                          !.args = Append(@, ToString(p.offset))]
          ELSE s1
        fetchNext(s2) ==
          IF p.limit > 0 /\ ~nonstandard
          THEN [s2 EXCEPT !.query = @ \o <<T("FETCH NEXT ("), PH(ToString(p.limit)),
                                              T(") ROWS ONLY")>>,
                          !.args = Append(@, ToString(p.limit))]
          ELSE s2
    IN offset(fetchNext(limited(st)))

\* LIMIT / OFFSET / FETCH NEXT part of addSelectSuffix
limitClause(p, st) ==
    LET nonstandard == Nonstandard(p.dialect)
        limited(s0) ==
          IF p.limit > 0 /\ nonstandard
          THEN [s0 EXCEPT !.query = @ \o LimiterLimit(PH(ToString(p.limit))),
                          !.args = Append(@, ToString(p.limit))]
          ELSE s0
        offset(s1) ==
          IF p.offset > 0
          THEN [s1 EXCEPT !.query = @ \o <<T("OFFSET"), PH(ToString(p.offset))>>,
                          !.args = Append(@, ToString(p.offset))]
          ELSE s1
        fetchNext(s2) ==
          IF p.limit > 0 /\ ~nonstandard
          THEN [s2 EXCEPT !.query = @ \o <<T("FETCH NEXT ("), PH(ToString(p.limit)),
                                              T(") ROWS ONLY")>>,
                          !.args = Append(@, ToString(p.limit))]
          ELSE s2
    IN fetchNext(offset(limited(st)))

\* Mutant of addSelectSuffix: the LIMIT / OFFSET part is written right after
\* the WHERE clause
addSelectSuffixLimitingFirst(p, st) ==
    LET ordered(p1, o) ==
          IF o.err # NoErr THEN [plan |-> p1, st |-> o.st, err |-> o.err]
          ELSE [plan |-> p1, st |-> o.st, err |-> NoErr]
        filtered(p1, w) ==
          IF w.err # NoErr THEN [plan |-> p1, st |-> w.st, err |-> w.err]
          ELSE ordered(p1, orderByClause(p1,
                 [limitClause(p1, w.st) EXCEPT !.query = @ \o groupByClause(p1.groupBy, 1)], 1))
        joined(p1, j) ==
          IF j.err # NoErr THEN [plan |-> p1, st |-> j.st, err |-> j.err]
          ELSE filtered(p1, addWhereClause(p1, j.st))
        stored(p1) ==
          joined(p1, addJoinClause(p1,
                 [st EXCEPT !.query = @ \o <<T("FROM"), T(QuotedTable(p1))>>], p1.joins))
    IN stored(storeJoin(p))

\* QueryPlan.addSelectSuffix; the pending join is stored in the plan first
addSelectSuffix(p, st) ==
    LET ordered(p1, o) ==
          IF o.err # NoErr THEN [plan |-> p1, st |-> o.st, err |-> o.err]
          ELSE [plan |-> p1, st |-> limitClause(p1, o.st), err |-> NoErr]
        filtered(p1, w) ==
          IF w.err # NoErr THEN [plan |-> p1, st |-> w.st, err |-> w.err]
          ELSE ordered(p1, orderByClause(p1,
                 [w.st EXCEPT !.query = @ \o groupByClause(p1.groupBy, 1)], 1))
        joined(p1, j) ==
          IF j.err # NoErr THEN [plan |-> p1, st |-> j.st, err |-> j.err]
          ELSE filtered(p1, addWhereClause(p1, j.st))
        stored(p1) ==
          joined(p1, addJoinClause(p1,
                 [st EXCEPT !.query = @ \o <<T("FROM"), T(QuotedTable(p1))>>], p1.joins))
    IN stored(storeJoin(p))

\* QueryPlan.SelectStatement
SelectStatement(p) ==
    LET columns(c) ==
          IF c.err # NoErr THEN [plan |-> p, st |-> c.st, err |-> c.err]
          ELSE addSelectSuffix(p, c.st)
    IN columns(addSelectColumns(p, [NewStatement EXCEPT !.query = <<T("SELECT")>>]))

\* QueryPlan.bindVars
bindVars(p, st) == [i \in 1..Len(st.args) |-> BindVar(p.dialect, i - 1)]

---------------------------------------------------------------------------
(* Fluent builder calls: each returns the plan it was called on *)

\* QueryPlan.JoinType
JoinType(p, joinType, target) ==
    LET mapped(r) ==
          IF r.err # NoErr
          THEN [r.plan EXCEPT !.Errors = Append(@, r.err),
                              !.filters = JoinFilter(joinType, "Error: no table found", "")]
          ELSE [r.plan EXCEPT !.filters =
                   JoinFilter(joinType, QuotedTableForQuery("", r.table),
                              IF r.alias # "" /\ r.alias # "-" THEN QuoteField(r.alias) ELSE "")]
    IN mapped(mapTable(storeJoin(p), target))

\* QueryPlan.Filter; plan.filters must hold a filter to add to
FilterPanics(p) == p.filters.kind = "nil"
\* Mutant of Filter: the new filters go in front of the ones already held
FilterPrepending(p, fs) == [p EXCEPT !.filters.filters = fs \o @]
Filter(p, fs) == [p EXCEPT !.filters = FilterAdd(@, fs)]

\* JoinQueryPlan.References: plan.lastRefs is added to the open filter, and
\* an error is recorded first when it is empty
References(p) ==
    Filter(IF Len(p.lastRefs) = 0 THEN [p EXCEPT !.Errors = Append(@, ErrNoRefs)] ELSE p,
           p.lastRefs)

\* The reference filters that mapping the target of a join appends to
\* plan.lastRefs
CapturedBy(p, target) ==
    mapTable([storeJoin(p) EXCEPT !.lastRefs = <<>>], target).plan.lastRefs

\* Mutant of Where: the open join is overwritten instead of stored
WhereDroppingJoin(p, filterSlice) == Filter([p EXCEPT !.filters = AndFilter], filterSlice)

\* QueryPlan.Where
Where(p, filterSlice) == Filter([storeJoin(p) EXCEPT !.filters = AndFilter], filterSlice)

\* AssignQueryPlan.Assign
Assign(p, fieldPtr, value) ==
    LET located(c) ==
          IF c.err # NoErr THEN [p EXCEPT !.Errors = Append(@, c.err)]
          ELSE [p EXCEPT !.assignCols = Append(@, c.col),
                         !.assignBindVars =
                            Append(@, <<BindVar(p.dialect, Len(p.assignBindVars)), value>>),
                         !.assignArgs = Append(@, value)]
    IN located(LocateColumn(p.colMap, fieldPtr))

\* QueryPlan.AddField for a plan made without JoinOps: the entry found is
\* marked for selection, whether its column is transient or not
AddField(p, fieldPtr) ==
    LET found(m) ==
          IF m.err # NoErr THEN [p EXCEPT !.Errors = Append(@, m.err)]
          ELSE [p EXCEPT !.colMap[m.idx].doSelect = TRUE]
    IN found(joinMapForPointer(p.colMap, fieldPtr))

\* QueryPlan.Fields: every entry is unmarked, then AddField runs per field
RECURSIVE AddFields(_, _)
AddFields(p, fields) ==
    IF fields = <<>> THEN p ELSE AddFields(AddField(p, Head(fields)), Tail(fields))
\* Mutant of Fields: the entries selected before stay selected
FieldsKeepingSelection(p, fields) == AddFields(p, fields)
Fields(p, fields) ==
    AddFields([p EXCEPT !.colMap = [i \in 1..Len(p.colMap) |->
                                      [p.colMap[i] EXCEPT !.doSelect = FALSE]]],
              fields)

\* QueryPlan.OrderBy and DiscardOrderBy
OrderBy(p, fieldPtrOrWrapper, direction) ==
    [p EXCEPT !.orderBy = Append(@, Order(fieldPtrOrWrapper, direction))]
DiscardOrderBy(p) == [p EXCEPT !.orderBy = <<>>]

\* QueryPlan.GroupBy
GroupBy(p, fieldPtr) ==
    LET located(c) ==
          IF c.err # NoErr THEN [p EXCEPT !.Errors = Append(@, c.err)]
          ELSE [p EXCEPT !.groupBy = Append(@, c.col)]
    IN located(LocateTableAndColumn(p.colMap, fieldPtr))

\* QueryPlan.Limit, DiscardLimit, Offset, DiscardOffset
Limit(p, limit) == [p EXCEPT !.limit = limit]
DiscardLimit(p) == [p EXCEPT !.limit = 0]
Offset(p, offset) == [p EXCEPT !.offset = offset]
DiscardOffset(p) == [p EXCEPT !.offset = 0]

---------------------------------------------------------------------------
(* Execution transport (external): the table is its number of committed    *)
(* mutations, and a read at version ver sees ver rows stamped with ver     *)

\* true of the columns the statement selects into the target struct
Selects(p, f) == \E i \in 1..Len(p.colMap) : p.colMap[i].field = f /\ p.colMap[i].doSelect

\* the fields of the struct the plan's target points to, in declaration order
TargetFields(p) == [i \in 1..Len(TableColumns(p.table)) |-> TableColumns(p.table)[i].field]
FieldSet(p) == {TargetFields(p)[i] : i \in 1..Len(TargetFields(p))}

\* executor.Select(target, query, args...): one struct per row
executorSelect(p, ver) ==
    [r \in 1..ver |->
        [f \in FieldSet(p) |->
            IF Selects(p, f) THEN f \o "@" \o ToString(ver) \o "#" \o ToString(r) ELSE ""]]

\* One call made on the transport
Sent(via, query, args) == <<[via |-> via, query |-> query, args |-> args]>>

---------------------------------------------------------------------------
(* Cache backend (interfaces.Cache) and the table -> keys registry *)

\* CacheKey(query, args): a signature of the SQL text and the ordered arguments
CacheKey(query, args) == [text |-> [i \in 1..Len(query) |-> query[i][1]], args |-> args]

\* addTableCacheMapEntry(tableKey, cacheKey)
addTableCacheMapEntry(reg, tableKey, cacheKey) ==
    [reg EXCEPT ![tableKey] = @ \cup {cacheKey}]

\* getTableCacheMapEntry(tableKey)
getTableCacheMapEntry(reg, tableKey) == reg[tableKey]

Tables == {"t1", "t2", "t3"}
SeqRange(s) == {s[i] : i \in 1..Len(s)}

\* cache.Get(key): the payload under key, none when absent
CacheGet(st, key) == IF key \in DOMAIN st THEN <<st[key]>> ELSE <<>>

\* cache.Set(tables, key, payload)
CacheSetStore(st, key, payload) ==
    [k \in DOMAIN st \cup {key} |-> IF k = key THEN payload ELSE st[k]]
CacheSetRegistry(reg, tables, key) ==
    [t \in Tables |-> IF t \in SeqRange(tables) THEN addTableCacheMapEntry(reg, t, key)[t]
                      ELSE reg[t]]

\* cache.DropEntries(tables): evicts every key registered against the tables
CacheDropEntries(st, reg, tables) ==
    LET keys == UNION {getTableCacheMapEntry(reg, t) : t \in SeqRange(tables)}
    IN [k \in DOMAIN st \ keys |-> st[k]]

\* Background goroutines
SetTask(tables, key, rows, ver) ==
    [kind |-> "Set", tables |-> tables, key |-> <<key>>, rows |-> rows, ver |-> ver]
DropTask(tables, ver) ==
    [kind |-> "DropEntries", tables |-> tables, key |-> <<>>, rows |-> <<>>, ver |-> ver]

---------------------------------------------------------------------------
(* Cache layer of the plan *)

ErrNoAlias == "Cannot find field matching alias"

\* QueryPlan.toCacheFormat: per row, alias -> value of every selected column
toCacheFormat(p, rows) ==
    [r \in 1..Len(rows) |->
        Flatten([i \in 1..Len(p.colMap) |->
                   IF p.colMap[i].doSelect
                   THEN << <<p.colMap[i].alias, rows[r][p.colMap[i].field]>> >>
                   ELSE <<>>])]

\* The loop of setField: the first entry with the alias; the loop variable
\* keeps the last entry when none matches, and is nil only for an empty map
RECURSIVE ColForAlias(_, _, _)
ColForAlias(colMap, alias, i) ==
    IF i > Len(colMap) THEN Len(colMap)
    ELSE IF colMap[i].alias = alias THEN i
    ELSE ColForAlias(colMap, alias, i + 1)

\* QueryPlan.setField
setField(p, target, alias, value) ==
    LET set(c, fields) ==
          IF c = 0 THEN [target |-> target, err |-> ErrNoAlias, panic |-> FALSE]
          ELSE IF p.colMap[c].FieldIndex > Len(fields)
          THEN [target |-> target, err |-> NoErr, panic |-> TRUE]
          ELSE [target |-> [target EXCEPT ![fields[p.colMap[c].FieldIndex]] = value],
                err |-> NoErr, panic |-> FALSE]
    IN set(ColForAlias(p.colMap, alias, 1), TargetFields(p))

\* The alias loop of unmarshalCachedResults
RECURSIVE setFields(_, _, _)
setFields(p, target, resMap) ==
    LET next(r) ==
          IF r.err # NoErr \/ r.panic THEN r ELSE setFields(p, r.target, Tail(resMap))
    IN IF resMap = <<>> THEN [target |-> target, err |-> NoErr, panic |-> FALSE]
       ELSE next(setField(p, target, Head(resMap)[1], Head(resMap)[2]))

\* QueryPlan.unmarshalCachedResults; reflect.Append panics unless resultSlice
\* is a slice
RECURSIVE unmarshalCachedResults(_, _, _, _)
unmarshalCachedResults(p, cached, resultSlice, isSlice) ==
    LET appended(r) ==
          IF r.panic THEN [rows |-> resultSlice, err |-> NoErr, panic |-> TRUE]
          ELSE IF r.err # NoErr THEN [rows |-> resultSlice, err |-> r.err, panic |-> FALSE]
          ELSE IF ~isSlice THEN [rows |-> resultSlice, err |-> NoErr, panic |-> TRUE]
          ELSE unmarshalCachedResults(p, Tail(cached), Append(resultSlice, r.target), isSlice)
    IN IF cached = <<>> THEN [rows |-> resultSlice, err |-> NoErr, panic |-> FALSE]
       ELSE appended(setFields(p, [f \in FieldSet(p) |-> ""], Head(cached)))

\* QueryPlan.cachedSelect.  toSlice: the target is a pointer to a slice
\* (SelectToTarget); otherwise the rows go to reflect.ValueOf(&results).
\* getErr: cache.Get fails.  Returns whether a non-nil result came back, the
\* rows delivered, the payload looked at, and whether the call panicked.
cachedSelect(p, toSlice, st, bvs, cacheStore, getErr) ==
    LET miss == [hit |-> FALSE, rows |-> <<>>, found |-> <<>>, panic |-> FALSE, failed |-> FALSE]
        restored(result, u) ==
          IF u.panic THEN [hit |-> FALSE, rows |-> u.rows, found |-> result,
                           panic |-> TRUE, failed |-> TRUE]
          ELSE IF u.err # NoErr THEN [hit |-> FALSE, rows |-> u.rows, found |-> result,
                                      panic |-> FALSE, failed |-> TRUE]
          ELSE [hit |-> TRUE, rows |-> u.rows, found |-> result,
                panic |-> FALSE, failed |-> FALSE]
        got(result) ==
          IF result = <<>> THEN miss
          ELSE restored(result, unmarshalCachedResults(p, result[1].rows, <<>>, toSlice))
    IN IF ~p.cache THEN miss
       ELSE IF getErr THEN [miss EXCEPT !.failed = TRUE]
       ELSE got(CacheGet(cacheStore, CacheKey(StatementQuery(st, bvs), st.args)))

\* QueryPlan.cacheResults: the goroutine it starts
cacheResults(p, results, ver, st, bvs) ==
    {SetTask(p.tables, CacheKey(StatementQuery(st, bvs), st.args),
             toCacheFormat(p, results), ver)}

---------------------------------------------------------------------------
(* Statements of the mutating actions *)

RECURSIVE JoinToks(_, _)
JoinToks(items, sep) ==
    IF items = <<>> THEN <<>>
    ELSE IF Tail(items) = <<>> THEN Head(items)
    ELSE Head(items) \o <<T(sep)>> \o JoinToks(Tail(items), sep)

\* The statement built by QueryPlan.Insert
InsertStatement(p) ==
    [NewStatement EXCEPT !.query =
        <<T("INSERT INTO"), T(QuotedTableForQuery("", p.table)), T("(")>>
        \o JoinToks([i \in 1..Len(p.assignCols) |-> <<T(p.assignCols[i])>>], ",")
        \o <<T(") VALUES (")>>
        \o JoinToks([i \in 1..Len(p.assignBindVars) |-> <<p.assignBindVars[i]>>], ",")
        \o <<T(")")>>]

\* Mutant of UpdateStatement: the statement starts without the assigned values
UpdateStatementWithoutAssigned(p) ==
    addWhereClause(p,
        [query |-> <<T("UPDATE"), T(QuotedTableForQuery("", p.table)), T("SET")>>
                   \o JoinToks([i \in 1..Len(p.assignCols) |->
                                  <<T(p.assignCols[i]), T("="), PH(p.assignArgs[i])>>], ","),
         args |-> <<>>])

\* The statement built by QueryPlan.Update
UpdateStatement(p) ==
    addWhereClause(p,
        [query |-> <<T("UPDATE"), T(QuotedTableForQuery("", p.table)), T("SET")>>
                   \o JoinToks([i \in 1..Len(p.assignCols) |->
                                  <<T(p.assignCols[i]), T("="), PH(p.assignArgs[i])>>], ","),
         args |-> p.assignArgs])

\* The statement built by QueryPlan.Delete
DeleteStatement(p) ==
    addWhereClause(p,
        [NewStatement EXCEPT !.query =
            <<T("DELETE FROM"), T(QuotedTableForQuery("", p.table))>>])

\* The statement built by QueryPlan.Count
CountStatement(p) ==
    addSelectSuffix(p, [NewStatement EXCEPT !.query = <<T("SELECT COUNT(*)")>>])

\* The statement built by QueryPlan.Truncate
TruncateStatement(p) ==
    [NewStatement EXCEPT !.query = <<T("TRUNCATE TABLE"), T(QuotedTable(p))>>]

\* go plan.cache.DropEntries(plan.tables) of Insert, Update and Delete
dispatchDropEntries(p, ver) ==
    IF p.cache /\ ~p.cachingDisabled THEN {DropTask(p.tables, ver)} ELSE {}

---------------------------------------------------------------------------
(* Finalizing actions.  `last' is what the caller got back, with the call  *)
(* made on the transport (sent), the compiled statement (st), the cache    *)
(* payload looked at (found), the version of the table the returned rows   *)
(* were read at (src), the goroutines the call started (spawned) and what  *)
(* the transport answered to the call (answer).                            *)

NoCall ==
    [op |-> "", args |-> <<>>, target |-> "", err |-> NoErr, rows |-> <<>>, n |-> 0,
     sent |-> <<>>, answer |-> "", st |-> <<>>, refs |-> <<>>,
     panic |-> FALSE, hit |-> FALSE, found |-> <<>>, failed |-> FALSE,
     src |-> -1, seen |-> 0, spawned |-> {}]

CacheMiss == [hit |-> FALSE, rows |-> <<>>, found |-> <<>>, panic |-> FALSE, failed |-> FALSE]

\* Outcomes of one call on the transport; a mutation commits unless it fails
ReadOutcomes == {"ok", "err"}
GetOutcomes == IF plan.cache /\ ~plan.cachingDisabled THEN BOOLEAN ELSE {FALSE}
ExecOutcomes == IF db < MaxMutations THEN {"ok", "err"} ELSE {"err"}
ResultOutcomes == IF db < MaxMutations THEN {"ok", "err", "norows"} ELSE {"err"}

\* The part Select and SelectToTarget share: compile, try the cache, fall
\* back to executor.Select, start the cache write
SelectBody(op, toSlice, c) ==
    LET base == [NoCall EXCEPT !.op = op, !.seen = dropped,
                               !.target = IF toSlice THEN "slicePtr" ELSE ""]
        returned(bvs, h, call, tasks, tried, rows, out) ==
          /\ last' = IF c.err # NoErr THEN [base EXCEPT !.err = c.err]
                     ELSE IF h.panic THEN [tried EXCEPT !.panic = TRUE, !.rows = h.rows]
                     ELSE IF h.hit
                     THEN [tried EXCEPT !.hit = TRUE, !.rows = h.rows, !.src = h.found[1].ver]
                     ELSE IF out = "err"
                     THEN [tried EXCEPT !.err = ErrTransport, !.sent = call, !.rows = h.rows,
                                        !.answer = out]
                     ELSE [tried EXCEPT !.sent = call, !.rows = rows, !.src = db,
                                        !.spawned = tasks, !.answer = out]
          /\ pending' = IF c.err = NoErr /\ ~h.panic /\ ~h.hit /\ out = "ok"
                        THEN pending \cup tasks ELSE pending
        selected(bvs, h, rows, out) ==
          returned(bvs, h,
                   Sent("executor.Select", StatementQuery(c.st, bvs), c.st.args),
                   IF c.plan.cache /\ ~c.plan.cachingDisabled
                   THEN cacheResults(c.plan, rows, db, c.st, bvs) ELSE {},
                   [base EXCEPT !.st = <<c.st>>, !.found = h.found, !.failed = h.failed],
                   rows, out)
        looked(bvs, h, out) == selected(bvs, h, h.rows \o executorSelect(c.plan, db), out)
        compiled(bvs, getErr, out) ==
          looked(bvs,
                 IF plan.cachingDisabled THEN CacheMiss
                 ELSE cachedSelect(c.plan, toSlice, c.st, bvs, store, getErr),
                 out)
    IN
    \E out \in ReadOutcomes, getErr \in GetOutcomes :
         /\ plan' = c.plan
         /\ compiled(bindVars(c.plan, c.st), getErr, out)
         /\ UNCHANGED <<calls, db, store, registry, dropped, probe, dbMap, sync>>

\* QueryPlan.Select
Select == SelectBody("Select", FALSE, SelectStatement(plan))

\* QueryPlan.SelectToTarget(target)
SelectToTarget ==
    \E isSlicePtr \in BOOLEAN :
      IF ~isSlicePtr
      THEN /\ last' = [NoCall EXCEPT !.op = "SelectToTarget", !.target = "notSlicePtr",
                                     !.seen = dropped, !.err = ErrSliceTarget]
           /\ UNCHANGED <<plan, calls, db, store, registry, pending, dropped, probe, dbMap, sync>>
      ELSE SelectBody("SelectToTarget", TRUE, SelectStatement(plan))

\* Mutant of Count: the error of executor.SelectInt is dropped
CountDroppingError ==
    LET base == [NoCall EXCEPT !.op = "Count", !.seen = dropped]
        counted(c, call, out) ==
          /\ plan' = c.plan
          /\ last' = IF QuotedTablePanics(c.plan) THEN [base EXCEPT !.panic = TRUE]
                     ELSE IF c.err # NoErr THEN [base EXCEPT !.err = c.err, !.n = -1]
                     ELSE IF out = "err"
                     THEN [base EXCEPT !.sent = call, !.st = <<c.st>>, !.answer = out]
                     ELSE [base EXCEPT !.n = db, !.sent = call, !.st = <<c.st>>,
                                       !.answer = out]
        compiled(c, out) ==
          counted(c, Sent("executor.SelectInt",
                          StatementQuery(c.st, bindVars(c.plan, c.st)), c.st.args), out)
    IN
    \E out \in ReadOutcomes :
         /\ compiled(CountStatement(plan), out)
         /\ UNCHANGED <<calls, db, store, registry, pending, dropped, probe, dbMap, sync>>

\* QueryPlan.Count
Count ==
    LET base == [NoCall EXCEPT !.op = "Count", !.seen = dropped]
        counted(c, call, out) ==
          /\ plan' = c.plan
          /\ last' = IF QuotedTablePanics(c.plan) THEN [base EXCEPT !.panic = TRUE]
                     ELSE IF c.err # NoErr THEN [base EXCEPT !.err = c.err, !.n = -1]
                     ELSE IF out = "err"
                     THEN [base EXCEPT !.err = ErrTransport, !.sent = call, !.st = <<c.st>>,
                                       !.answer = out]
                     ELSE [base EXCEPT !.n = db, !.sent = call, !.st = <<c.st>>,
                                       !.answer = out]
        compiled(c, out) ==
          counted(c, Sent("executor.SelectInt",
                          StatementQuery(c.st, bindVars(c.plan, c.st)), c.st.args), out)
    IN
    \E out \in ReadOutcomes :
         /\ compiled(CountStatement(plan), out)
         /\ UNCHANGED <<calls, db, store, registry, pending, dropped, probe, dbMap, sync>>

\* QueryPlan.Insert
Insert ==
    \E out \in ExecOutcomes :
      LET st == InsertStatement(plan)
          call == Sent("executor.Exec", st.query, st.args)
          ver == IF out = "ok" THEN db + 1 ELSE db
          tasks == dispatchDropEntries(plan, IF out = "ok" THEN ver ELSE 0)
          base == [NoCall EXCEPT !.op = "Insert", !.seen = dropped]
          failed == pendingError(plan) # NoErr
      IN /\ last' = IF failed THEN [base EXCEPT !.err = pendingError(plan)]
                    ELSE [base EXCEPT !.err = IF out = "ok" THEN NoErr ELSE ErrTransport,
                                      !.sent = call, !.st = <<st>>, !.spawned = tasks,
                                      !.answer = out]
         /\ db' = IF failed THEN db ELSE ver
         /\ pending' = IF failed THEN pending ELSE pending \cup tasks
         /\ UNCHANGED <<plan, calls, store, registry, dropped, probe, dbMap, sync>>

\* The part Update and Delete share once the statement is built: Exec, then
\* RowsAffected, then the invalidation
ExecBody(op, c) ==
    LET bvs == bindVars(plan, c.st)
        call == Sent("executor.Exec", StatementQuery(c.st, bvs), c.st.args)
    IN
    \E out \in ResultOutcomes :
      LET ver == IF out = "err" THEN db ELSE db + 1
          tasks == dispatchDropEntries(plan, ver)
          base == [NoCall EXCEPT !.op = op, !.seen = dropped]
          failed == pendingError(plan) # NoErr \/ c.err # NoErr
      IN /\ last' = IF pendingError(plan) # NoErr
                    THEN [base EXCEPT !.err = pendingError(plan), !.n = -1]
                    ELSE IF c.err # NoErr THEN [base EXCEPT !.err = c.err, !.n = -1]
                    ELSE IF out # "ok"
                    THEN [base EXCEPT !.err = IF out = "err" THEN ErrTransport
                                              ELSE ErrRowsAffected,
                                      !.n = -1, !.sent = call, !.st = <<c.st>>,
                                      !.answer = out]
                    ELSE [base EXCEPT !.n = 1, !.sent = call, !.st = <<c.st>>,
                                      !.spawned = tasks, !.answer = out]
         /\ db' = IF failed THEN db ELSE ver
         /\ pending' = IF ~failed /\ out = "ok" THEN pending \cup tasks ELSE pending
         /\ UNCHANGED <<plan, calls, store, registry, dropped, probe, dbMap, sync>>

\* QueryPlan.Update
Update == ExecBody("Update", UpdateStatement(plan))

\* QueryPlan.Delete
Delete == ExecBody("Delete", DeleteStatement(plan))

\* QueryPlan.Truncate
Truncate ==
    \E out \in ExecOutcomes :
      LET st == TruncateStatement(plan)
          call == Sent("dbMap.Exec", st.query, st.args)
          base == [NoCall EXCEPT !.op = "Truncate", !.seen = dropped]
      IN /\ last' = IF QuotedTablePanics(plan) THEN [base EXCEPT !.panic = TRUE]
                    ELSE [base EXCEPT !.err = IF out = "ok" THEN NoErr ELSE ErrTransport,
                                      !.sent = call, !.st = <<st>>, !.answer = out]
         /\ db' = IF ~QuotedTablePanics(plan) /\ out = "ok" THEN db + 1 ELSE db
         /\ UNCHANGED <<plan, calls, store, registry, pending, dropped, probe, dbMap, sync>>

---------------------------------------------------------------------------
(* Background goroutines finishing *)

\* plan.cache.Set(plan.tables, key, encoded) of cacheResults' goroutine
CacheSetDone ==
    \E g \in pending :
      /\ g.kind = "Set"
      /\ store' = CacheSetStore(store, g.key[1], [rows |-> g.rows, ver |-> g.ver])
      /\ registry' = CacheSetRegistry(registry, g.tables, g.key[1])
      /\ pending' = pending \ {g}
      /\ UNCHANGED <<plan, calls, last, db, dropped, probe, dbMap, sync>>

\* plan.cache.DropEntries(plan.tables) of a mutating action's goroutine
DropEntriesDone ==
    \E g \in pending :
      /\ g.kind = "DropEntries"
      /\ store' = CacheDropEntries(store, registry, g.tables)
      /\ dropped' = IF g.ver > dropped THEN g.ver ELSE dropped
      /\ pending' = pending \ {g}
      /\ UNCHANGED <<plan, calls, last, db, registry, probe, dbMap, sync>>

\* Mutant of CacheWorkFails: the failure of the goroutine reaches the caller
CacheWorkFailsSurfacing ==
    \E g \in pending :
      /\ pending' = pending \ {g}
      /\ last' = [last EXCEPT !.err = "cache: background work failed"]
      /\ UNCHANGED <<plan, calls, db, store, registry, dropped, probe, dbMap, sync>>

\* A goroutine that ends without doing its work: prepareForCache returns an
\* error in cacheResults' goroutine, or the backend's Set or DropEntries fails
CacheWorkFails ==
    \E g \in pending :
      /\ pending' = pending \ {g}
      /\ UNCHANGED <<plan, calls, last, db, store, registry, dropped, probe, dbMap, sync>>

---------------------------------------------------------------------------
(* Fluent calls as steps of the caller *)

Called(op) == [NoCall EXCEPT !.op = op]

Build(op, p) ==
    /\ calls < MaxCalls
    /\ plan' = p
    /\ calls' = calls + 1
    /\ last' = Called(op)
    /\ UNCHANGED <<db, store, registry, pending, dropped, probe, dbMap, sync>>

\* A fluent call whose arguments the caller's record keeps
BuildWith(op, p, args) ==
    /\ calls < MaxCalls
    /\ plan' = p
    /\ calls' = calls + 1
    /\ last' = [Called(op) EXCEPT !.args = args]
    /\ UNCHANGED <<db, store, registry, pending, dropped, probe, dbMap, sync>>

\* A fluent call that panics: the caller gets nothing back
PanicStep(op, args) ==
    /\ calls < MaxCalls
    /\ calls' = calls + 1
    /\ last' = [Called(op) EXCEPT !.panic = TRUE, !.args = args]
    /\ UNCHANGED <<plan, db, store, registry, pending, dropped, probe, dbMap, sync>>

AssignCall(inputs) ==
    \E a \in inputs :
      IF joinMapForPointerPanics(plan.colMap, a[1]) THEN PanicStep("Assign", a)
      ELSE BuildWith("Assign", Assign(plan, a[1], a[2]), a)

AddFieldCall(inputs) ==
    \E f \in inputs :
      IF joinMapForPointerPanics(plan.colMap, f) THEN PanicStep("AddField", <<f>>)
      ELSE BuildWith("AddField", AddField(plan, f), <<f>>)

FieldsCall(inputs) == \E fs \in inputs : BuildWith("Fields", Fields(plan, fs), fs)

WhereCall(inputs) == \E fs \in inputs : BuildWith("Where", Where(plan, fs), fs)

\* Filter and On both run plan.filters.Add, a nil dereference when the plan
\* holds no filter
FilterCall(inputs) ==
    \E fs \in inputs :
      IF FilterPanics(plan)
      THEN /\ calls < MaxCalls
           /\ calls' = calls + 1
           /\ last' = [Called("Filter") EXCEPT !.panic = TRUE, !.args = fs]
           /\ UNCHANGED <<plan, db, store, registry, pending, dropped, probe, dbMap, sync>>
      ELSE BuildWith("Filter", Filter(plan, fs), fs)

JoinCall(inputs) ==
    \E j \in inputs :
      /\ calls < MaxCalls
      /\ plan' = JoinType(plan, j[1], j[2])
      /\ calls' = calls + 1
      /\ last' = [Called("Join") EXCEPT !.args = j, !.refs = CapturedBy(plan, j[2])]
      /\ UNCHANGED <<db, store, registry, pending, dropped, probe, dbMap, sync>>

\* References runs plan.Filter after it has recorded its error, so on a plan
\* that holds no filter the error is recorded and the call panics
ReferencesCall ==
    IF FilterPanics(plan)
    THEN /\ calls < MaxCalls
         /\ calls' = calls + 1
         /\ plan' = IF Len(plan.lastRefs) = 0
                    THEN [plan EXCEPT !.Errors = Append(@, ErrNoRefs)] ELSE plan
         /\ last' = [Called("References") EXCEPT !.panic = TRUE]
         /\ UNCHANGED <<db, store, registry, pending, dropped, probe, dbMap, sync>>
    ELSE Build("References", References(plan))

OrderByCall(inputs) == \E o \in inputs : Build("OrderBy", OrderBy(plan, o[1], o[2]))

GroupByCall(inputs) ==
    \E f \in inputs :
      IF joinMapForPointerPanics(plan.colMap, f) THEN PanicStep("GroupBy", <<f>>)
      ELSE BuildWith("GroupBy", GroupBy(plan, f), <<f>>)

LimitCall(inputs) == \E n \in inputs : Build("Limit", Limit(plan, n))

OffsetCall(inputs) == \E n \in inputs : Build("Offset", Offset(plan, n))

DiscardLimitCall == plan.limit # 0 /\ Build("DiscardLimit", DiscardLimit(plan))

DiscardOffsetCall == plan.offset # 0 /\ Build("DiscardOffset", DiscardOffset(plan))

DiscardOrderByCall == plan.orderBy # <<>> /\ Build("DiscardOrderBy", DiscardOrderBy(plan))

---------------------------------------------------------------------------
(* The builder and finalizer machine without a cache *)

Equal(fieldPtr, value) == Comparison("=", fieldPtr, value)
Less(fieldPtr, value) == Comparison("<", fieldPtr, value)

AssignInputs == {<<"Name", "x">>, <<"Bad", "x">>}
WhereInputs == {<<>>, <<Equal("ID", Lit("5"))>>}
FilterInputs == {<<Less("Name", Lit("y"))>>, <<Equal("Bad", Lit("5"))>>,
                 <<Equal("ID", Lit("7")), Less("Name", Lit("y"))>>}
JoinInputs == {<<"INNER", "other">>, <<"LEFT OUTER", "other">>}
OrderByInputs == {<<Lit("z"), "DESC">>, <<Lit("z"), "sideways">>}
GroupByInputs == {"Name", "Tmp"}
LimitInputs == {2}
OffsetInputs == {3}

NoProbe == [q1 |-> "", a1 |-> <<>>, q2 |-> "", a2 |-> <<>>]

\* Callers of the table -> keys registry: goroutines that read a table's keys
\* and goroutines that register a key
Readers == {"r1"}
Writers == {"w1", "w2"}
Procs == Readers \cup Writers
KeyOf(w) == IF w = "w1" THEN "k1" ELSE "k2"

\* tableCacheLock free and every caller outside the registry functions
NoSync ==
    [writer |-> "", readers |-> {},
     pc |-> [c \in Procs |-> "idle"],
     tableKey |-> [c \in Procs |-> ""],
     cacheKeys |-> [r \in Readers |-> ""],
     n |-> [r \in Readers |-> 0],
     entries |-> [r \in Readers |-> {}],
     panic |-> [r \in Readers |-> FALSE]]

\* a plan with a join already made: Query(ref).Join(other).On(Equal(&other.OID, 9))
Joined(dialect) ==
    Filter(JoinType(Query(dialect, "model", FALSE, FALSE), "INNER", "other"),
           <<Equal("OID", Lit("9"))>>)

InitPlans ==
    {Query("postgres", "model", FALSE, FALSE), Joined("mysql"),
     Query("postgres", "nonptr", FALSE, FALSE)}

Init ==
    /\ plan \in InitPlans
    /\ calls = 0
    /\ last = NoCall
    /\ db = 0
    /\ store = <<>>
    /\ registry = [t \in Tables |-> {}]
    /\ pending = {}
    /\ dropped = 0
    /\ probe = NoProbe
    /\ dbMap = [Dialect |-> plan.dialect]
    /\ sync = NoSync

Next ==
    \/ AssignCall(AssignInputs)
    \/ WhereCall(WhereInputs)
    \/ FilterCall(FilterInputs)
    \/ JoinCall(JoinInputs)
    \/ OrderByCall(OrderByInputs)
    \/ GroupByCall(GroupByInputs)
    \/ LimitCall(LimitInputs)
    \/ OffsetCall(OffsetInputs)
    \/ DiscardLimitCall
    \/ DiscardOffsetCall
    \/ DiscardOrderByCall
    \/ Select
    \/ SelectToTarget
    \/ Count
    \/ Insert
    \/ Update
    \/ Delete
    \/ Truncate

Spec == Init /\ [][Next]_vars

---------------------------------------------------------------------------
(* Claims about errors and compiled statements *)

Finalizers == {"Select", "SelectToTarget", "Count", "Insert", "Update", "Delete", "Truncate"}

\* C1: a finalizing action called while the plan's Errors list is non-empty
\* returns an error and makes no call on the execution transport.
C1_PendingErrorsBlockExecution ==
    (last.op \in Finalizers /\ Len(plan.Errors) > 0)
        => (last.err # NoErr /\ last.sent = <<>> /\ ~last.panic)

\* C2: Select, SelectToTarget with a pointer-to-slice target, Insert, Update
\* and Delete, called while Errors is non-empty, return Errors[0], whatever
\* was appended after it.
C2_FirstErrorSurfaces ==
    (/\ last.op \in {"Select", "SelectToTarget", "Insert", "Update", "Delete"}
     /\ last.target # "notSlicePtr"
     /\ Len(plan.Errors) > 0)
        => (last.err = plan.Errors[1] /\ last.sent = <<>> /\ ~last.panic)

C2_Witness ==
    /\ last.op \in {"Select", "SelectToTarget", "Insert", "Update", "Delete"}
    /\ last.target # "notSlicePtr"
    /\ Len(plan.Errors) >= 2
    /\ plan.Errors[1] # plan.Errors[Len(plan.Errors)]
    /\ last.err = plan.Errors[1]

\* The literal operands of a list of filters, in the order the filters list them
LitsOf(values) ==
    Flatten([i \in 1..Len(values) |->
               IF values[i][1] = "lit" THEN <<values[i][2]>> ELSE <<>>])
WhereLits(p) == LitsOf(MultiActualValues(p.filters))
JoinLits(p) == Flatten([j \in 1..Len(p.joins) |-> LitsOf(MultiActualValues(p.joins[j]))])
OrderLits(p) == LitsOf([i \in 1..Len(p.orderBy) |-> p.orderBy[i].value])
LimitCount(p) == (IF p.limit > 0 THEN 1 ELSE 0) + (IF p.offset > 0 THEN 1 ELSE 0)

C4_UpdateStatementAndArgs ==
    (last.op = "Update" /\ last.sent # <<>>) =>
        LET call == last.sent[1]
            k == Len(plan.assignCols)
            whereAt == IF k = 0 THEN 4 ELSE 3 + 4 * k
        IN /\ call.args = plan.assignArgs \o WhereLits(plan)
           /\ BoundFor(call.query) = call.args
           /\ BoundText(call.query) = [i \in 1..Len(call.args) |-> BindVar(plan.dialect, i - 1)]
           /\ SubSeq(call.query, 1, 3) =
                <<T("UPDATE"), T(QuotedTableForQuery("", plan.table)), T("SET")>>
           /\ \A i \in 1..k :
                /\ call.query[4 * i] = T(plan.assignCols[i])
                /\ call.query[4 * i + 1] = T("=")
                /\ call.query[4 * i + 2] = <<BindVar(plan.dialect, i - 1), plan.assignArgs[i]>>
                /\ i < k => call.query[4 * i + 3] = T(",")
           /\ IF plan.filters.filters # <<>>
              THEN Len(call.query) > whereAt /\ call.query[whereAt] = T("WHERE")
              ELSE Len(call.query) = whereAt - 1

C4_Witness ==
    /\ last.op = "Update"
    /\ last.sent # <<>>
    /\ last.sent[1].args = <<"x", "5">>
    /\ BoundText(last.sent[1].query) = <<"$1", "$2">>
    /\ BoundFor(last.sent[1].query) = <<"x", "5">>

\* C5: Insert sends a statement whose column list is the assigned columns in
\* Assign order and whose arguments are the assigned values in that order,
\* one per bind variable of the VALUES list.
C5_InsertColumnsAndArgs ==
    (last.op = "Insert" /\ last.sent # <<>>) =>
        LET call == last.sent[1]
            k == Len(plan.assignCols)
        IN /\ call.args = plan.assignArgs
           /\ BoundFor(call.query) = call.args
           /\ \A i \in 1..k : call.query[2 * i + 2] = T(plan.assignCols[i])

\* C15: a call of Where(f1..fn), in any plan state, appends a join that was
\* open to the stored joins with its ON filters as they were, and leaves the
\* plan with a new AND filter holding exactly f1..fn in order.
C15_WhereClosesJoinAndStartsAnd ==
    [][(last'.op = "Where" /\ calls' = calls + 1) =>
          /\ plan'.filters.kind = "and"
          /\ plan'.filters.filters = last'.args
          /\ plan'.joins = IF plan.filters.kind = "join"
                           THEN Append(plan.joins, plan.filters)
                           ELSE plan.joins]_vars

C15_Witness ==
    /\ last.op = "Where"
    /\ calls = 1
    /\ last.args = <<Equal("ID", Lit("5"))>>
    /\ plan.filters.filters = last.args
    /\ Len(plan.joins) = 1
    /\ plan.joins[1].filters = <<Equal("OID", Lit("9"))>>

\* The stored joins once the plan's open join, if any, is closed
JoinsClosed(p) == IF p.filters.kind = "join" THEN Append(p.joins, p.filters) ELSE p.joins

\* A step that compiles a SELECT or a count as far as its FROM clause
CompilesSelect ==
    /\ last'.op \in {"Select", "SelectToTarget", "Count"}
    /\ last'.target # "notSlicePtr"
    /\ last'.op = "Count" \/ Len(plan.Errors) = 0

C27_TransportErrorReturnedUnchanged ==
    (last.op \in {"Select", "SelectToTarget", "Count", "Insert", "Update", "Delete"}
       /\ last.answer = "err") =>
        /\ last.err = ErrTransport
        /\ ~last.panic
        /\ last.rows = <<>>
        /\ last.n = (IF last.op \in {"Update", "Delete"} THEN -1 ELSE 0)

C27_Witness ==
    /\ last.op = "Update" /\ last.answer = "err"
    /\ last.sent # <<>>
    /\ plan.assignCols # <<>>
    /\ last.err = ErrTransport

\* C28: no call order reaches a plan that executes a SELECT while it holds
\* assignments, nor a Filter made while the plan has neither a WHERE filter
\* nor an open join.
C28_IllegalOrdersUnreachable ==
    /\ ~(/\ last.op \in {"Select", "SelectToTarget"} /\ last.sent # <<>>
         /\ plan.assignCols # <<>>)
    /\ ~(last.op = "Filter" /\ last.panic)

\* strings.ToLower on the directions in use
ToLower(direction) ==
    CASE direction = "DESC" -> "desc"
      [] direction = "ASC" -> "asc"
      [] OTHER -> direction
MalformedOrder(p) ==
    \E i \in 1..Len(p.orderBy) : ToLower(p.orderBy[i].direction) \notin {"", "asc", "desc"}

\* C32: a SELECT on a plan that holds an OrderBy with a direction other than
\* "", "asc" or "desc" (in any case) returns the order-direction error and
\* sends nothing; with legal directions only, that error is not returned.
C32_MalformedDirectionIsAnError ==
    (last.op \in {"Select", "SelectToTarget"} /\ ~last.panic) =>
        IF MalformedOrder(plan)
        THEN last.err # NoErr /\ last.sent = <<>>
        ELSE last.err # ErrDirection

C39_WhereFiltersNeverLost ==
    [][(plan.filters.kind = "and" /\ plan.filters.filters # <<>>) =>
          /\ plan'.filters.kind = "and"
          /\ \A i \in 1..Len(plan.filters.filters) :
                \E j \in 1..Len(plan'.filters.filters) :
                   plan'.filters.filters[j] = plan.filters.filters[i]]_vars

\* C29: an Insert or Update on a plan with no assignment returns an error
\* and sends no statement to the transport.
C29_NoAssignmentIsAnError ==
    (last.op \in {"Insert", "Update"} /\ plan.assignCols = <<>>) =>
        /\ last.err # NoErr
        /\ last.sent = <<>>

\* The finalizers that compile the plan's filters into a statement
Compilers == {"Select", "SelectToTarget", "Count", "Update", "Delete"}

\* C17: a finalizer that compiles a statement has moved the open join into the
\* stored joins first: no join is open afterwards, the stored joins are those
\* of the plan with its open join closed, and the statement has no WHERE
\* clause when the plan's only filters were the ON filters of the open join.
C17_CompileStoresOpenJoin ==
    [][(last'.op \in Compilers /\ last'.st # <<>>) =>
          /\ plan'.filters.kind # "join"
          /\ plan'.joins = JoinsClosed(plan)
          /\ (plan.filters.kind = "join" =>
                T("WHERE") \notin SeqRange(last'.st[1].query))]_vars

\* C18: an UPDATE compiled from a plan with stored joins has a FROM clause,
\* and a DELETE a USING clause, that names every joined table, and the
\* statement has a WHERE clause that carries the joins' ON conditions.
C18_UpdateDeleteSpliceJoins ==
    (last.op \in {"Update", "Delete"} /\ last.st # <<>> /\ plan.joins # <<>>) =>
        /\ T(IF last.op = "Update" THEN "FROM" ELSE "USING") \in SeqRange(last.st[1].query)
        /\ \A i \in 1..Len(plan.joins) :
              T(plan.joins[i].QuotedJoinTable) \in SeqRange(last.st[1].query)
        /\ (\E i \in 1..Len(plan.joins) : plan.joins[i].filters # <<>>) =>
              T("WHERE") \in SeqRange(last.st[1].query)

\* Position of a clause keyword in the fixed order of a SELECT; 0 for a token
\* that opens no clause
ClauseOf(tok) ==
    CASE tok = T("SELECT") -> 1
      [] tok = T("FROM") -> 2
      [] tok = T("JOIN") -> 3
      [] tok = T("WHERE") -> 4
      [] tok = T("GROUP BY") -> 5
      [] tok = T("ORDER BY") -> 6
      [] tok \in {T("LIMIT"), T("OFFSET"), T("FETCH NEXT (")} -> 7
      [] OTHER -> 0

\* How many times a keyword is written in a statement
Occurrences(query, text) == Cardinality({i \in DOMAIN query : query[i] = T(text)})

Once(cond) == IF cond THEN 1 ELSE 0

\* The clauses of query are in the fixed order, and they are those p holds
ClausesInOrder(query, p) ==
    /\ \A i, j \in DOMAIN query :
          (i < j /\ ClauseOf(query[i]) > 0 /\ ClauseOf(query[j]) > 0) =>
              ClauseOf(query[i]) <= ClauseOf(query[j])
    /\ Occurrences(query, "SELECT") = 1
    /\ Occurrences(query, "FROM") = 1
    /\ Occurrences(query, "JOIN") = Len(p.joins)
    /\ Occurrences(query, "WHERE") = Once(p.filters.filters # <<>>)
    /\ Occurrences(query, "GROUP BY") = Once(p.groupBy # <<>>)
    /\ Occurrences(query, "ORDER BY") = Once(p.orderBy # <<>>)
    /\ Occurrences(query, "LIMIT") + Occurrences(query, "FETCH NEXT (") = Once(p.limit > 0)
    /\ Occurrences(query, "OFFSET") = Once(p.offset > 0)

Ending(seq, n) == SubSeq(seq, IF n > Len(seq) THEN 1 ELSE Len(seq) - n + 1, Len(seq))

\* seq ends with tail
EndsWith(seq, tail) == Ending(seq, Len(tail)) = tail

\* What a statement ends with for a limit and an offset on either kind of
\* dialect: the clauses, and the values in the argument list
LimitOffsetText(nonstandard, limit, offset) ==
    IF nonstandard
    THEN (IF limit > 0 THEN <<T("LIMIT"), PH(ToString(limit))>> ELSE <<>>)
         \o (IF offset > 0 THEN <<T("OFFSET"), PH(ToString(offset))>> ELSE <<>>)
    ELSE (IF offset > 0 THEN <<T("OFFSET"), PH(ToString(offset))>> ELSE <<>>)
         \o (IF limit > 0
             THEN <<T("FETCH NEXT ("), PH(ToString(limit)), T(") ROWS ONLY")>> ELSE <<>>)
LimitOffsetArgs(nonstandard, limit, offset) ==
    IF nonstandard
    THEN (IF limit > 0 THEN <<ToString(limit)>> ELSE <<>>)
         \o (IF offset > 0 THEN <<ToString(offset)>> ELSE <<>>)
    ELSE (IF offset > 0 THEN <<ToString(offset)>> ELSE <<>>)
         \o (IF limit > 0 THEN <<ToString(limit)>> ELSE <<>>)

\* The statement st ends with the limit and offset of p, and has no other
\* limit or offset clause and no argument without a placeholder
LimitedAsPlanned(st, p) ==
    /\ EndsWith(st.query, LimitOffsetText(Nonstandard(p.dialect), p.limit, p.offset))
    /\ EndsWith(st.args, LimitOffsetArgs(Nonstandard(p.dialect), p.limit, p.offset))
    /\ Occurrences(st.query, "LIMIT") = Once(p.limit > 0 /\ Nonstandard(p.dialect))
    /\ Occurrences(st.query, "FETCH NEXT (") = Once(p.limit > 0 /\ ~Nonstandard(p.dialect))
    /\ Occurrences(st.query, "OFFSET") = Once(p.offset > 0)
    /\ Len(st.args) = Cardinality({i \in DOMAIN st.query : st.query[i][1] = BindVarPlaceholder})

\* C20: a compiled SELECT or count on a non-standard-limit dialect ends with
\* LIMIT then OFFSET and its arguments with the limit then the offset; on a
\* standard dialect it ends with OFFSET then FETCH NEXT (n) ROWS ONLY and its
\* arguments with the offset then the limit; a limit or offset of 0, never set
\* or discarded by DiscardLimit / DiscardOffset, writes no clause and adds no
\* argument.
C20_LimitAndOffsetByDialect ==
    /\ (last.op \in {"Select", "SelectToTarget", "Count"} /\ last.st # <<>>) =>
          LimitedAsPlanned(last.st[1], plan)
    /\ last.op = "DiscardLimit" => plan.limit = 0
    /\ last.op = "DiscardOffset" => plan.offset = 0

C20_Witness ==
    /\ last.op = "Select" /\ last.st # <<>>
    /\ ~Nonstandard(plan.dialect)
    /\ plan.limit > 0 /\ plan.offset > 0
    /\ plan.orderBy # <<>>



---------------------------------------------------------------------------
(* The finalizers of one cached plan with their background goroutines *)

\* a cached plan with a join already made, and one whose target is a sub-query
JoinedCached ==
    Filter(JoinType(Query("postgres", "model", TRUE, FALSE), "INNER", "other"),
           <<Equal("OID", Lit("9"))>>)
SubQueryCached == Query("postgres", "sub", TRUE, FALSE)

InitCache ==
    /\ plan \in {Query("postgres", "model", TRUE, FALSE),
                 Query("postgres", "model", TRUE, TRUE),
                 JoinedCached, SubQueryCached}
    /\ calls = 0
    /\ last = NoCall
    /\ db = 0
    /\ store = <<>>
    /\ registry = [t \in Tables |-> {}]
    /\ pending = {}
    /\ dropped = 0
    /\ probe = NoProbe
    /\ dbMap = [Dialect |-> plan.dialect]
    /\ sync = NoSync

NextCache ==
    \/ Select
    \/ SelectToTarget
    \/ Insert
    \/ Update
    \/ Delete
    \/ CacheSetDone
    \/ DropEntriesDone
    \/ CacheWorkFails

SpecCache == InitCache /\ [][NextCache]_vars

Mutators == {"Insert", "Update", "Delete"}
Selectors == {"Select", "SelectToTarget"}

\* C6: a Select that starts after the invalidation of a committed Insert,
\* Update or Delete has completed never returns rows that were read before
\* that mutation, whatever cache writes were in flight.
C6_NoStaleRowsAfterInvalidation ==
    (/\ last.op \in Selectors
     /\ last.target # "notSlicePtr"
     /\ last.err = NoErr
     /\ ~last.panic)
        => last.src >= last.seen

\* C7: every Insert, Update and Delete that reached the table through a plan
\* with a cache configured started a DropEntries for the plan's tables.
C7_MutationDispatchesInvalidation ==
    (/\ last.op \in Mutators
     /\ last.sent # <<>>
     /\ last.err # ErrTransport
     /\ plan.cache)
        => \E g \in last.spawned : g.kind = "DropEntries" /\ g.tables = plan.tables

\* C8: a Select that finds in the cache what the same statement read from the
\* table, with no mutation since, returns those rows, one per cached row.
C8_CacheHitReturnsSameRows ==
    (/\ last.op \in Selectors
     /\ last.found # <<>>
     /\ last.found[1].ver = db)
        => /\ ~last.panic
           /\ last.err = NoErr
           /\ last.rows = executorSelect(plan, db)
           /\ Len(last.rows) = Len(last.found[1].rows)

\* C9: a failure of the cache layer during Select or SelectToTarget is not
\* raised to the caller; the call goes to the transport and returns the
\* transport's rows and error.
C9_CacheFailureFallsBack ==
    (last.op \in Selectors /\ last.failed)
        => /\ ~last.panic
           /\ last.sent # <<>>
           /\ last.err \in {NoErr, ErrTransport}
           /\ last.err = NoErr => last.rows = executorSelect(plan, db)

\* The tables whose columns the plan's column map reads
TouchedTables(p) ==
    {t \in Tables : \E i \in 1..Len(p.colMap), k \in 1..Len(TableColumns(t)) :
                       TableColumns(t)[k].field = p.colMap[i].field}

\* C11: the table list a cacheable Select hands to cache.Set holds every table
\* the plan touched: the primary table, every joined table, and the tables
\* reached through a sub-query target.
C11_SetRegistersEveryTable ==
    \A g \in last.spawned :
        g.kind = "Set" => TouchedTables(plan) \subseteq SeqRange(g.tables)

---------------------------------------------------------------------------
(* The table -> keys registry under tableCacheLock: one step per statement  *)
(* of addTableCacheMapEntry and getTableCacheMapEntry                      *)

LockTables == {"t1", "t2"}

At(c, pos) == sync.pc[c] = pos
Goto(c, pos) == [sync EXCEPT !.pc[c] = pos]
RegistryFrame == UNCHANGED <<plan, calls, last, db, store, pending, dropped, probe, dbMap>>

\* addTableCacheMapEntry(tableKey, cacheKey) is called
addCall(w) ==
    /\ At(w, "idle")
    /\ \E t \in LockTables : sync' = [Goto(w, "Lock") EXCEPT !.tableKey[w] = t]
    /\ UNCHANGED registry /\ RegistryFrame

\* tableCacheLock.Lock()
addLock(w) ==
    /\ At(w, "Lock")
    /\ sync.writer = "" /\ sync.readers = {}
    /\ sync' = [Goto(w, "store") EXCEPT !.writer = w]
    /\ UNCHANGED registry /\ RegistryFrame

\* tableCacheMap[tableKey][cacheKey] = struct{}{}, creating the inner map
addStore(w) ==
    /\ At(w, "store")
    /\ registry' = addTableCacheMapEntry(registry, sync.tableKey[w], KeyOf(w))
    /\ sync' = Goto(w, "Unlock")
    /\ RegistryFrame

\* tableCacheLock.Unlock()
addUnlock(w) ==
    /\ At(w, "Unlock")
    /\ sync' = [Goto(w, "idle") EXCEPT !.writer = ""]
    /\ UNCHANGED registry /\ RegistryFrame

\* getTableCacheMapEntry(tableKey) is called
getCall(r) ==
    /\ At(r, "idle")
    /\ \E t \in LockTables :
          sync' = [Goto(r, "RLock") EXCEPT !.tableKey[r] = t, !.cacheKeys[r] = "",
                                           !.n[r] = 0, !.entries[r] = {}, !.panic[r] = FALSE]
    /\ UNCHANGED registry /\ RegistryFrame

\* tableCacheLock.RLock()
getRLock(r) ==
    /\ At(r, "RLock")
    /\ sync.writer = ""
    /\ sync' = [Goto(r, "load") EXCEPT !.readers = @ \cup {r}]
    /\ UNCHANGED registry /\ RegistryFrame

\* cacheKeys = tableCacheMap[tableKey]: a reference to the table's inner map,
\* nil when the table has none yet
getLoad(r) ==
    /\ At(r, "load")
    /\ sync' = [Goto(r, "RUnlock") EXCEPT
                  !.cacheKeys[r] = IF registry[sync.tableKey[r]] = {} THEN ""
                                   ELSE sync.tableKey[r]]
    /\ UNCHANGED registry /\ RegistryFrame

\* tableCacheLock.RUnlock()
getRUnlock(r) ==
    /\ At(r, "RUnlock")
    /\ sync' = [Goto(r, "len") EXCEPT !.readers = @ \ {r}]
    /\ UNCHANGED registry /\ RegistryFrame

\* the inner map the reader's reference points to, as it is now
Referenced(r) == IF sync.cacheKeys[r] = "" THEN {} ELSE registry[sync.cacheKeys[r]]

\* entries := make([]string, len(cacheKeys))
getLen(r) ==
    /\ At(r, "len")
    /\ sync' = [Goto(r, "range") EXCEPT !.n[r] = Cardinality(Referenced(r))]
    /\ UNCHANGED registry /\ RegistryFrame

\* for k := range cacheKeys { entries[i] = k; i++ }: the index runs past the
\* slice when the map holds more keys than it did at make
getRange(r) ==
    /\ At(r, "range")
    /\ sync' = IF Cardinality(Referenced(r)) > sync.n[r]
               THEN [Goto(r, "idle") EXCEPT !.panic[r] = TRUE]
               ELSE [Goto(r, "idle") EXCEPT !.entries[r] = Referenced(r)]
    /\ UNCHANGED registry /\ RegistryFrame

InitLock ==
    /\ plan = Query("postgres", "model", TRUE, FALSE)
    /\ calls = 0
    /\ last = NoCall
    /\ db = 0
    /\ store = <<>>
    /\ registry = [t \in Tables |-> {}]
    /\ pending = {}
    /\ dropped = 0
    /\ probe = NoProbe
    /\ dbMap = [Dialect |-> plan.dialect]
    /\ sync = NoSync

NextLock ==
    \/ \E w \in Writers : addCall(w)
    \/ \E w \in Writers : addLock(w)
    \/ \E w \in Writers : addStore(w)
    \/ \E w \in Writers : addUnlock(w)
    \/ \E r \in Readers : getCall(r)
    \/ \E r \in Readers : getRLock(r)
    \/ \E r \in Readers : getLoad(r)
    \/ \E r \in Readers : getRUnlock(r)
    \/ \E r \in Readers : getLen(r)
    \/ \E r \in Readers : getRange(r)

SpecLock == InitLock /\ [][NextLock]_vars

\* C13: a caller reads the contents of a table's key set only while it holds
\* the shared lock, and never while a writer, holding the exclusive lock, is
\* about to modify that same key set.
C13_RegistryReadUnderLock ==
    \A r \in Readers :
        (sync.pc[r] \in {"len", "range"} /\ sync.cacheKeys[r] # "") =>
            /\ r \in sync.readers
            /\ ~\E w \in Writers :
                  sync.pc[w] = "store" /\ sync.tableKey[w] = sync.cacheKeys[r]

---------------------------------------------------------------------------
(* Callers that build their plans from one shared DbMap *)

\* The type switch that opens Query: a gorp.MySQLDialect is replaced in the
\* DbMap by the dialects.MySQLDialect that wraps it
WrapDialect(d) == IF d = "gorp.MySQLDialect" THEN "mysql" ELSE d

NoPlan == EmptyPlan("", FALSE, FALSE)
HasPlan == plan # NoPlan
QueryTargets == {"model", "other", "nonptr"}

\* Query(m, exec, target, cache, cachingDisabled) called on the shared DbMap
QueryCall ==
    /\ calls < MaxCalls
    /\ \E target \in QueryTargets :
          plan' = Query(WrapDialect(dbMap.Dialect), target, FALSE, FALSE)
    /\ dbMap' = [dbMap EXCEPT !.Dialect = WrapDialect(@)]
    /\ calls' = calls + 1
    /\ last' = Called("Query")
    /\ UNCHANGED <<db, store, registry, pending, dropped, probe, sync>>

InitShared ==
    /\ plan = NoPlan
    /\ calls = 0
    /\ last = NoCall
    /\ db = 0
    /\ store = <<>>
    /\ registry = [t \in Tables |-> {}]
    /\ pending = {}
    /\ dropped = 0
    /\ probe = NoProbe
    /\ dbMap \in {[Dialect |-> "postgres"], [Dialect |-> "gorp.MySQLDialect"]}
    /\ sync = NoSync

NextShared ==
    \/ QueryCall
    \/ HasPlan /\ WhereCall(WhereInputs)
    \/ HasPlan /\ JoinCall(JoinInputs)
    \/ HasPlan /\ LimitCall(LimitInputs)
    \/ HasPlan /\ Select
    \/ HasPlan /\ Count
    \/ HasPlan /\ Update
    \/ HasPlan /\ Delete

SpecShared == InitShared /\ [][NextShared]_vars

\* C14: apart from cache registration and invalidation, Query and every
\* builder and finalizing call write nothing the callers share: the DbMap,
\* the registry and the cache stay as they are, only the plan changes.
C14_OnlyThePlanIsWritten ==
    [][dbMap' = dbMap /\ registry' = registry /\ store' = store]_vars

---------------------------------------------------------------------------
(* Mapping targets and resolving field references: a plan made by Query    *)
(* from any kind of target, then joins and calls that name fields          *)

MapTargets == {"model", "parent", "nonptr", "ptrint", "ghost", "sub", "esub"}
MapJoinInputs ==
    {<<"INNER", t>> :
        t \in {"other", "child", "sub", "esub", "usub", "nonptr", "ptrint", "ghost"}}
    \cup {<<"LEFT OUTER", "child">>}

InitMap ==
    /\ \E target \in MapTargets :
          /\ plan = Query("postgres", target, FALSE, FALSE)
          /\ last = [Called("Query") EXCEPT !.args = <<target>>]
    /\ calls = 0
    /\ db = 0
    /\ store = <<>>
    /\ registry = [t \in Tables |-> {}]
    /\ pending = {}
    /\ dropped = 0
    /\ probe = NoProbe
    /\ dbMap = [Dialect |-> "postgres"]
    /\ sync = NoSync

\* Field references: a mapped field, one of no mapped struct, a transient
\* field, a field of the joined struct, and a value that is no pointer
FieldRefs == {"Name", "Bad", "Tmp", "OID", "value"}
MapAssignInputs == {<<f, "x">> : f \in FieldRefs}
FieldsInputs == {<<>>, <<"Name">>, <<"Tmp">>, <<"Bad", "ID">>}

NextMap ==
    \/ JoinCall(MapJoinInputs)
    \/ WhereCall(WhereInputs)
    \/ FilterCall(FilterInputs)
    \/ AssignCall(MapAssignInputs)
    \/ GroupByCall(FieldRefs)
    \/ AddFieldCall(FieldRefs)
    \/ FieldsCall(FieldsInputs)
    \/ ReferencesCall
    \/ Select
    \/ Count

SpecMap == InitMap /\ [][NextMap]_vars

\* The entries of a column map that the field references fs resolve to: for
\* each reference, the first entry that holds its address
ResolvedBy(colMap, fs) ==
    {i \in 1..Len(colMap) :
        /\ \E k \in 1..Len(fs) : colMap[i].field = fs[k]
        /\ \A j \in 1..(i - 1) : colMap[j].field # colMap[i].field}
Selected(colMap) == {i \in 1..Len(colMap) : colMap[i].doSelect}

CommasSeparate(query) ==
    \A i \in 1..Len(query) :
       query[i] = T(",") =>
          /\ i > 1 /\ i < Len(query)
          /\ query[i - 1] \notin {T("SELECT"), T(",")}
          /\ query[i + 1] \notin {T("FROM"), T(",")}

\* C33: the column list of every compiled SELECT has its items separated by
\* one comma each, with no leading, trailing or doubled comma, whichever
\* columns are selected.
C33_ColumnListWellSeparated ==
    (last.op \in {"Select", "SelectToTarget"} /\ last.st # <<>>) =>
        CommasSeparate(last.st[1].query)

\* The placeholder JoinType leaves in plan.filters when mapping failed
FailedJoinOpen(p) ==
    p.filters.kind = "join" /\ p.filters.QuotedJoinTable = "Error: no table found"

\* C34: a Join whose target cannot be mapped records the error and leaves
\* the placeholder join filter open; while it is open, Filter and References
\* do not panic, and Select and Count return the first pending error
\* without calling the transport.
C34_FailedJoinKeepsChainSafe ==
    [][/\ (last'.op = "Join" /\ Len(plan'.Errors) > Len(plan.Errors)) =>
             FailedJoinOpen(plan')
       /\ (FailedJoinOpen(plan) /\ last'.op \in {"Filter", "References"}) =>
             ~last'.panic
       /\ (FailedJoinOpen(plan) /\ last'.op \in {"Select", "Count"}) =>
             /\ last'.err = plan.Errors[1]
             /\ last'.sent = <<>>]_vars

\* What mapping the sub-query q is to give: its entries under its alias, its
\* pending errors with the error of compiling it, its SELECT as derived table
ImportedColumns(q) ==
    [i \in 1..Len(q.colMap) |-> [q.colMap[i] EXCEPT !.quotedTable = q.quotedTable]]
ImportedErrors(q) ==
    q.Errors \o (IF selectQuery(q).err # NoErr THEN <<selectQuery(q).err>> ELSE <<>>)
DerivedTable(q) == "(" \o selectQuery(q).query \o ") as " \o q.quotedTable
SubQueryOf(call) == SubQueryTarget(call.args[Len(call.args)], "postgres")
MapsSubQuery(call) ==
    call.op \in {"Query", "Join"} /\ IsSubQuery(call.args[Len(call.args)])

\* C36: mapping a query plan as the target of Query or of a join imports its
\* column map under its alias, takes "(<its SELECT>) as <alias>" as the table
\* to select from or to join, and appends its pending errors and the error
\* of compiling it to Errors, so that a finalizing action on the plan fails
\* without calling the transport.
C36_SubQueryImported ==
    /\ [](/\ (last.op = "Query" /\ MapsSubQuery(last)) =>
                /\ plan.colMap = ImportedColumns(SubQueryOf(last))
                /\ plan.Errors = ImportedErrors(SubQueryOf(last))
                /\ plan.quotedTable = DerivedTable(SubQueryOf(last)))
    /\ [][/\ (last'.op = "Join" /\ MapsSubQuery(last')) =>
                /\ plan'.colMap = plan.colMap \o ImportedColumns(SubQueryOf(last'))
                /\ plan'.Errors = plan.Errors \o ImportedErrors(SubQueryOf(last'))
                /\ plan'.filters.QuotedJoinTable = DerivedTable(SubQueryOf(last'))
          /\ (/\ MapsSubQuery(last) /\ ImportedErrors(SubQueryOf(last)) # <<>>
              /\ last'.op \in {"Select", "Count"}) =>
                /\ last'.err # NoErr
                /\ last'.sent = <<>>]_vars

\* C40: on a plan whose target was mapped, Filter (On, a comparison helper)
\* and References are only ever called while the plan holds a filter tree:
\* the AND filter of a Where or the filter of an open join.
C40_FilterFindsATree ==
    [][(last'.op \in {"Filter", "References"} /\ plan.table # "") =>
          plan.filters.kind # "nil"]_vars

\* C30: References called on a join just opened adds to the join's ON
\* filters exactly the reference filters that mapping the join's own target
\* captured, and when there are none it records the error and adds nothing.
C30_ReferencesAddsOwnReferences ==
    [][(last.op = "Join" /\ last'.op = "References") =>
          /\ ~last'.panic
          /\ plan'.filters.filters = plan.filters.filters \o last.refs
          /\ plan'.Errors = IF last.refs = <<>> THEN Append(plan.Errors, ErrNoRefs)
                            ELSE plan.Errors]_vars

\* The error mapTable returns for a target it cannot map
MappingError(target) ==
    CASE target = "nonptr" -> ErrPtrTypes
      [] target = "ptrint" -> ErrNoStruct
      [] target = "ghost" -> ErrNoFields
      [] OTHER -> NoErr

\* C21: a target that is no pointer, that points to no struct, or whose
\* struct has only transient columns fails to map: the plan Query returns
\* holds the mapping error in Errors, and a Join or LeftJoin of such a target
\* appends the mapping error to Errors.
C21_UnmappableTargetRecordsError ==
    /\ []((last.op = "Query" /\ MappingError(last.args[1]) # NoErr) =>
             /\ plan.Errors # <<>>
             /\ plan.Errors[Len(plan.Errors)] = MappingError(last.args[1]))
    /\ [][(/\ last'.op = "Join" /\ calls' = calls + 1
           /\ MappingError(last'.args[2]) # NoErr) =>
             plan'.Errors = Append(plan.Errors, MappingError(last'.args[2]))]_vars

C21_Witness ==
    /\ last.op = "Join" /\ last.args = <<"INNER", "ghost">>
    /\ calls = 1
    /\ plan.target = "model"
    /\ plan.Errors = <<ErrNoFields>>

\* C22: Assign, GroupBy and AddField with a field reference that matches no
\* entry of the plan's column map, whatever the reference is, do not panic and
\* record the unresolved-field error.
C22_UnmappedFieldIsAnError ==
    [][(/\ last'.op \in {"Assign", "GroupBy", "AddField"} /\ calls' = calls + 1
        /\ IndexOfField(plan.colMap, last'.args[1], 1) = 0) =>
          /\ ~last'.panic
          /\ plan'.Errors = Append(plan.Errors, ErrNotFound)]_vars

\* C23: in every state of a plan, no two entries of its column map hold the
\* same field address.
C23_FieldAddressesUnique ==
    \A i, j \in 1..Len(plan.colMap) :
        plan.colMap[i].field = plan.colMap[j].field => i = j

\* C24: the column map only grows: whatever call is made on the plan, the
\* entries it held keep their place, field address, column, alias and quoted
\* table and column names.
C24_ColumnMapOnlyExtended ==
    [][/\ Len(plan'.colMap) >= Len(plan.colMap)
       /\ \A i \in 1..Len(plan.colMap) :
             /\ plan'.colMap[i].field = plan.colMap[i].field
             /\ plan'.colMap[i].column = plan.colMap[i].column
             /\ plan'.colMap[i].alias = plan.colMap[i].alias
             /\ plan'.colMap[i].quotedTable = plan.colMap[i].quotedTable
             /\ plan'.colMap[i].quotedColumn = plan.colMap[i].quotedColumn]_vars

\* C25: no compiled SELECT lists a transient column, whatever calls built the
\* plan, and an Assign or GroupBy that names a transient field records the
\* 'cannot run queries against transient columns' error.
C25_TransientNeverQueried ==
    /\ []((last.op \in {"Select", "SelectToTarget"} /\ last.st # <<>>) =>
             \A i \in 1..Len(plan.colMap) :
                 plan.colMap[i].Transient =>
                     T(plan.colMap[i].quotedTable \o "." \o plan.colMap[i].quotedColumn)
                         \notin SeqRange(last.st[1].query))
    /\ [][(/\ last'.op \in {"Assign", "GroupBy"} /\ calls' = calls + 1
           /\ \E i \in 1..Len(plan.colMap) :
                 /\ plan.colMap[i].field = last'.args[1]
                 /\ plan.colMap[i].Transient) =>
             plan'.Errors = Append(plan.Errors, ErrTransient)]_vars

\* The call op cannot resolve fieldPtr in p: no entry has that address, or,
\* for the calls that need a queryable column, the entry is transient
Unresolved(p, op, fieldPtr) ==
    \/ IndexOfField(p.colMap, fieldPtr, 1) = 0
    \/ /\ op # "AddField"
       /\ \E i \in 1..Len(p.colMap) : p.colMap[i].field = fieldPtr /\ p.colMap[i].Transient

\* C26: an Assign, GroupBy or AddField that cannot resolve its field returns
\* the plan with one more error at the end of Errors and everything else as
\* it was.
C26_FailedBuilderCallOnlyAddsError ==
    [][(/\ last'.op \in {"Assign", "GroupBy", "AddField"} /\ calls' = calls + 1
        /\ Unresolved(plan, last'.op, last'.args[1])) =>
          /\ ~last'.panic
          /\ Len(plan'.Errors) = Len(plan.Errors) + 1
          /\ SubSeq(plan'.Errors, 1, Len(plan.Errors)) = plan.Errors
          /\ plan' = [plan EXCEPT !.Errors = plan'.Errors]]_vars

---------------------------------------------------------------------------
(* The cache key of a statement.  An argument is [kind, text]: its Go type  *)
(* and what fmt prints for it with %v                                      *)

MaxKeyArgs == 2

RECURSIVE JoinStr(_, _)
JoinStr(strs, sep) ==
    IF strs = <<>> THEN ""
    ELSE IF Tail(strs) = <<>> THEN Head(strs)
    ELSE Head(strs) \o sep \o JoinStr(Tail(strs), sep)

\* fmt's %v of a []interface{}: the elements' %v forms between brackets,
\* separated by spaces
FmtV(args) == "[" \o JoinStr([i \in 1..Len(args) |-> args[i].text], " ") \o "]"

\* cacheKey := fmt.Sprintf("%s: %v", query, plan.args)
LegacyCacheKey(query, args) == query \o ": " \o FmtV(args)

ProbeValues ==
    {[kind |-> "int", text |-> "1"], [kind |-> "string", text |-> "1"],
     [kind |-> "string", text |-> "a"], [kind |-> "string", text |-> "b"],
     [kind |-> "string", text |-> "a b"]}
ProbeArgs == UNION {[1..n -> ProbeValues] : n \in 0..MaxKeyArgs}
ProbeQueries == {"SELECT id FROM t WHERE a = $1", "SELECT id FROM t WHERE a = $1 AND b = $2"}

\* Two statements are keyed, as Select and SelectToTarget key theirs
KeyProbe ==
    /\ probe = NoProbe
    /\ \E q1 \in ProbeQueries, q2 \in ProbeQueries, a1 \in ProbeArgs, a2 \in ProbeArgs :
          probe' = [q1 |-> q1, a1 |-> a1, q2 |-> q2, a2 |-> a2]
    /\ UNCHANGED <<plan, calls, last, db, store, registry, pending, dropped, dbMap, sync>>

InitKey ==
    /\ plan = Query("postgres", "model", TRUE, FALSE)
    /\ calls = 0
    /\ last = NoCall
    /\ db = 0
    /\ store = <<>>
    /\ registry = [t \in Tables |-> {}]
    /\ pending = {}
    /\ dropped = 0
    /\ probe = NoProbe
    /\ dbMap = [Dialect |-> plan.dialect]
    /\ sync = NoSync

NextKey == KeyProbe

SpecKey == InitKey /\ [][NextKey]_vars

\* C10: two statements get the same cache key exactly when they have the same
\* SQL text and the same ordered arguments.
C10_KeyDeterminedByTextAndArgs ==
    /\ (LegacyCacheKey(probe.q1, probe.a1) = LegacyCacheKey(probe.q2, probe.a2))
          <=> (probe.q1 = probe.q2 /\ probe.a1 = probe.a2)
    /\ (CacheKey(<<T(probe.q1)>>, probe.a1) = CacheKey(<<T(probe.q2)>>, probe.a2))
          <=> (probe.q1 = probe.q2 /\ probe.a1 = probe.a2)

---------------------------------------------------------------------------
(* Update and Delete of the superseded plan, which src/ still holds, next  *)
(* to the current ones.  Its builder calls keep the plan as the current    *)
(* ones do; its finalizers compile the stored joins as well.               *)

\* QueryPlan.joinFromAndWhereClause: the joined tables and the joins' filters
RECURSIVE joinFromAndWhereClause(_, _, _)
joinFromAndWhereClause(p, joins, acc) ==
    LET added(r) ==
          IF r.err # NoErr THEN [from |-> <<>>, where |-> <<>>, args |-> <<>>, err |-> r.err]
          ELSE joinFromAndWhereClause(p, Tail(joins),
                 [from |-> Append(acc.from, <<T(Head(joins).QuotedJoinTable)>>),
                  where |-> acc.where \o MultiWhere(Head(joins).filters, r.vals),
                  args |-> acc.args \o r.args, err |-> NoErr])
    IN IF joins = <<>> THEN [acc EXCEPT !.from = JoinToks(@, ",")]
       ELSE added(argsOrColumns(p, MultiActualValues(Head(joins))))
NoJoins == [from |-> <<>>, where |-> <<>>, args |-> <<>>, err |-> NoErr]

\* QueryPlan.whereClause
whereClause(p) ==
    LET rendered(r) ==
          IF r.err # NoErr THEN [where |-> <<>>, args |-> <<>>, err |-> r.err]
          ELSE IF MultiWhere(p.filters.filters, r.vals) = <<>>
          THEN [where |-> <<>>, args |-> <<>>, err |-> NoErr]
          ELSE [where |-> <<T("where")>> \o MultiWhere(p.filters.filters, r.vals),
                args |-> r.args, err |-> NoErr]
    IN IF p.filters.kind = "nil" THEN [where |-> <<>>, args |-> <<>>, err |-> NoErr]
       ELSE rendered(argsOrColumns(p, MultiActualValues(p.filters)))

\* The tail Update and Delete share: the joined tables behind keyword, then
\* the WHERE clause with the joins' filters after it
LegacySuffix(head, args, keyword, j, w) ==
    [query |-> head
               \o (IF j.from # <<>> THEN <<T(keyword)>> \o j.from ELSE <<>>)
               \o w.where
               \o (IF j.where = <<>> THEN <<>>
                   ELSE (IF w.where = <<>> THEN <<T("where")>> ELSE <<T("and")>>) \o j.where),
     args |-> args \o j.args \o w.args]

\* The statement of the superseded Update.  returned is what the caller gets
\* when compiling fails: the error of the joins is dropped there
LegacyUpdateStatement(p) ==
    LET head == <<T("update"), T(QuotedTableForQuery("", p.table)), T("set")>>
                \o JoinToks([i \in 1..Len(p.assignCols) |->
                               <<T(p.assignCols[i]), T("="), PH(p.assignArgs[i])>>], ",")
        compiled(j, w) ==
          IF j.err # NoErr THEN [st |-> NewStatement, failed |-> TRUE, returned |-> NoErr]
          ELSE IF w.err # NoErr THEN [st |-> NewStatement, failed |-> TRUE, returned |-> w.err]
          ELSE [st |-> LegacySuffix(head, p.assignArgs, "from", j, w),
                failed |-> FALSE, returned |-> NoErr]
    IN compiled(joinFromAndWhereClause(p, p.joins, NoJoins), whereClause(p))

\* The statement of the superseded Delete
LegacyDeleteStatement(p) ==
    LET head == <<T("delete from"), T(QuotedTableForQuery("", p.table))>>
        compiled(j, w) ==
          IF j.err # NoErr THEN [st |-> NewStatement, failed |-> TRUE, returned |-> j.err]
          ELSE IF w.err # NoErr THEN [st |-> NewStatement, failed |-> TRUE, returned |-> w.err]
          ELSE [st |-> LegacySuffix(head, <<>>, "using", j, w),
                failed |-> FALSE, returned |-> NoErr]
    IN compiled(joinFromAndWhereClause(p, p.joins, NoJoins), whereClause(p))

\* What the superseded Update and Delete share on a plan that is not cached
LegacyExecBody(op, c) ==
    \E out \in ResultOutcomes :
      /\ last' = IF pendingError(plan) # NoErr
                 THEN [Called(op) EXCEPT !.err = pendingError(plan), !.n = -1]
                 ELSE IF c.failed THEN [Called(op) EXCEPT !.err = c.returned, !.n = -1]
                 ELSE IF out # "ok"
                 THEN [Called(op) EXCEPT !.err = IF out = "err" THEN ErrTransport
                                                ELSE ErrRowsAffected,
                                         !.n = -1, !.answer = out, !.st = <<c.st>>,
                                         !.sent = Sent("executor.Exec", c.st.query, c.st.args)]
                 ELSE [Called(op) EXCEPT !.n = 1, !.answer = out, !.st = <<c.st>>,
                                         !.sent = Sent("executor.Exec", c.st.query, c.st.args)]
      /\ db' = IF pendingError(plan) # NoErr \/ c.failed \/ out = "err" THEN db ELSE db + 1
      /\ UNCHANGED <<plan, calls, store, registry, pending, dropped, probe, dbMap, sync>>

LegacyUpdate == LegacyExecBody("LegacyUpdate", LegacyUpdateStatement(plan))

LegacyDelete == LegacyExecBody("LegacyDelete", LegacyDeleteStatement(plan))

NextMutate ==
    \/ AssignCall(AssignInputs)
    \/ WhereCall(WhereInputs)
    \/ FilterCall(FilterInputs)
    \/ JoinCall(JoinInputs)
    \/ Update
    \/ Delete
    \/ LegacyUpdate
    \/ LegacyDelete

SpecMutate == Init /\ [][NextMutate]_vars

\* The clause compilers of the action that ran last fail on the plan
CompileFails(op, p) ==
    IF op \in {"LegacyUpdate", "LegacyDelete"}
    THEN \/ joinFromAndWhereClause(p, p.joins, NoJoins).err # NoErr
         \/ whereClause(p).err # NoErr
    ELSE addWhereClause(p, NewStatement).err # NoErr

\* C38: an Update or Delete, of either generation, that fails to compile one
\* of its clauses returns an error and -1 and sends nothing.
C38_CompileFailureIsReturned ==
    (/\ last.op \in {"Update", "Delete", "LegacyUpdate", "LegacyDelete"}
     /\ CompileFails(last.op, plan)) =>
        /\ last.err # NoErr
        /\ last.n = -1
        /\ last.sent = <<>>

---------------------------------------------------------------------------
(* Rebuilding rows from a cache payload.  The cache is a store outside the *)
(* program, so the payload read is any list of rows of alias -> value      *)

MaxCachedPairs == 2
CachedAliases == {"id", "name", "tmp", "zip"}
CachedValues == {"a", "b"}
CachedPairs == {<<a, v>> : a \in CachedAliases, v \in CachedValues}
\* One row of a payload: a map, so no alias twice; ranged over in any order
CachedRows ==
    {r \in UNION {[1..n -> CachedPairs] : n \in 0..MaxCachedPairs} :
        \A i, j \in 1..Len(r) : r[i][1] = r[j][1] => i = j}

\* unmarshalCachedResults on a payload of one row, into a slice
Rebuild ==
    /\ last.op = ""
    /\ \E row \in CachedRows :
         LET rebuilt(u) ==
               last' = [Called("unmarshalCachedResults") EXCEPT
                          !.found = <<row>>, !.rows = u.rows, !.err = u.err,
                          !.panic = u.panic]
         IN rebuilt(unmarshalCachedResults(plan, <<row>>, <<>>, TRUE))
    /\ UNCHANGED <<plan, calls, db, store, registry, pending, dropped, probe, dbMap, sync>>

InitRebuild ==
    /\ plan \in {Query("postgres", "model", TRUE, FALSE),
                 Fields(Query("postgres", "model", TRUE, FALSE), <<"Name">>)}
    /\ calls = 0
    /\ last = NoCall
    /\ db = 0
    /\ store = <<>>
    /\ registry = [t \in Tables |-> {}]
    /\ pending = {}
    /\ dropped = 0
    /\ probe = NoProbe
    /\ dbMap = [Dialect |-> plan.dialect]
    /\ sync = NoSync

NextRebuild == Rebuild

SpecRebuild == InitRebuild /\ [][NextRebuild]_vars

KnownAlias(p, alias) == \E i \in 1..Len(p.colMap) : p.colMap[i].alias = alias

\* C37: a cached value is written only into the field of the entry whose
\* alias is the cached key, and a row with a key that is no entry's alias
\* gives the 'cannot find field' error and no row.
C37_CachedValueGoesToItsAlias ==
    (last.op = "unmarshalCachedResults") =>
        IF \E k \in 1..Len(last.found[1]) : ~KnownAlias(plan, last.found[1][k][1])
        THEN last.err = ErrNoAlias /\ last.rows = <<>>
        ELSE /\ last.err = NoErr /\ ~last.panic /\ Len(last.rows) = 1
             /\ \A f \in FieldSet(plan) :
                   last.rows[1][f] # "" =>
                      \E k \in 1..Len(last.found[1]), i \in 1..Len(plan.colMap) :
                         /\ plan.colMap[i].alias = last.found[1][k][1]
                         /\ plan.colMap[i].field = f
                         /\ last.rows[1][f] = last.found[1][k][2]

=============================================================================
